---- MODULE Spec2Model ----
(***************************************************************************)
(* A model of html-tstring: the template compiler of html.py (the          *)
(* ElementParser tree builder and the bookkeeping substitution), the       *)
(* placeholder codec and substitution engine of processor.py, and the      *)
(* renderers of nodes.py and element.py.                                   *)
(*                                                                         *)
(* Strings are sequences of one-character strings, so that escaping,       *)
(* prefix tests, formatting and parsing of indices are computed the way    *)
(* the code computes them.  Python values are records tagged by "kind".    *)
(***************************************************************************)
EXTENDS Integers, Sequences, FiniteSets, Bags, TLC

VARIABLES
    \* ---- html.py: html() and its ElementParser ----
    stack,      \* ElementParser.stack: frames (tag, attrs, children)
    err,        \* the exception that ended the call, or "none"
    count,      \* html(): number of interpolations seen so far
    callables,  \* html(): callable -> bookkeeping key
    bookkeep,   \* html(): bookkeeping key -> interpolation value
    phase,      \* "feeding" while parts are fed, "done" after get_root
    result,     \* what html() returned
    fed,        \* history: the parts fed so far, in order
    \* ---- one template, through html() of html.py and of processor.py ----
    a_pc,       \* "written" | "old" | "resolved" | "rendered"
    a_parts,    \* what varies in the template, in source order: the attributes
                \* of its start tag, its child slots, or its elements
    a_old,      \* html.py: what html() returned or raised
    a_new,      \* processor.py: what html() returned or raised
    a_out,      \* nodes.py: str() of the element resolved by processor.py
    a_old_out,  \* element.py: render() of the element resolved by html.py
    a_calls,    \* html.py: the invocations of callables html() made, in order
    \* ---- processor.py: html() ----
    salt,       \* the random letters of _PLACEHOLDER_PREFIX
    tmpl,       \* the template being compiled (its parts)
    pc,         \* "called" | "instrumented" | "parsed" | "resolved" | "rendered"
    chunks,     \* _instrument(template.strings)
    p_node,     \* the placeholder tree
    node,       \* the resolved tree
    out,        \* str(node)
    cache,      \* the lru_cache of _instrument_and_parse, least recently used first
    builds,     \* the bag of the keys parse_html_iter ran for
    \* ---- one call of a function of the library on its own ----
    fn_pc,      \* "idle" | "called" | "returned"
    fn_args,    \* the arguments of the call
    fn_result   \* what the call returned or raised

varsOld == <<stack, err, count, callables, bookkeep, phase, result, fed>>
varsAttr == <<a_pc, a_parts, a_old, a_new, a_out, a_old_out, a_calls>>
varsProc == <<salt, tmpl, pc, chunks, p_node, node, out, cache, builds>>
varsFn == <<fn_pc, fn_args, fn_result>>
vars == <<varsOld, varsAttr, varsProc, varsFn>>

-----------------------------------------------------------------------------
(* Strings *)

S0 == <<>>

StartsWith(s, p) == Len(s) >= Len(p) /\ SubSeq(s, 1, Len(p)) = p

Digits == <<"0", "1", "2", "3", "4", "5", "6", "7", "8", "9">>

IsDigit(c) == \E d \in 1..10 : Digits[d] = c

DigitVal(c) == (CHOOSE d \in 1..10 : Digits[d] = c) - 1

\* str(n) for a natural number
RECURSIVE StrNat(_)
StrNat(n) ==
    IF n < 10 THEN <<Digits[n + 1]>>
    ELSE StrNat(n \div 10) \o <<Digits[(n % 10) + 1]>>

RECURSIVE NatOfDigits(_)
NatOfDigits(s) ==
    IF s = <<>> THEN 0
    ELSE 10 * NatOfDigits(SubSeq(s, 1, Len(s) - 1)) + DigitVal(s[Len(s)])

RECURSIVE LStrip(_)
LStrip(s) == IF s # <<>> /\ s[1] = " " THEN LStrip(Tail(s)) ELSE s

RECURSIVE RStrip(_)
RStrip(s) ==
    IF s # <<>> /\ s[Len(s)] = " " THEN RStrip(SubSeq(s, 1, Len(s) - 1)) ELSE s

\* str.strip()
Strip(s) == RStrip(LStrip(s))

\* int(s): surrounding blanks and one sign are accepted, then digits only;
\* anything else is a ValueError.
PyInt(s) ==
    LET t == Strip(s)
        neg == t # <<>> /\ t[1] = "-"
        pos == t # <<>> /\ t[1] = "+"
        d == IF neg \/ pos THEN Tail(t) ELSE t
    IN  IF d # <<>> /\ \A i \in 1..Len(d) : IsDigit(d[i])
        THEN [ok |-> TRUE, n |-> IF neg THEN 0 - NatOfDigits(d) ELSE NatOfDigits(d)]
        ELSE [ok |-> FALSE, n |-> 0]

RECURSIVE Concat(_)
Concat(ss) == IF ss = <<>> THEN <<>> ELSE Head(ss) \o Concat(Tail(ss))

\* sep.join(ss)
RECURSIVE Join(_, _)
Join(sep, ss) ==
    IF ss = <<>> THEN <<>>
    ELSE IF Len(ss) = 1 THEN ss[1]
    ELSE ss[1] \o sep \o Join(sep, Tail(ss))

\* html.escape: & < > always, and the two quotes when quote=True
EscapeChar(c, quote) ==
    IF c = "&" THEN <<"&", "a", "m", "p", ";">>
    ELSE IF c = "<" THEN <<"&", "l", "t", ";">>
    ELSE IF c = ">" THEN <<"&", "g", "t", ";">>
    ELSE IF quote /\ c = "\"" THEN <<"&", "q", "u", "o", "t", ";">>
    ELSE IF quote /\ c = "'" THEN <<"&", "#", "x", "2", "7", ";">>
    ELSE <<c>>

RECURSIVE escape(_, _)
escape(s, quote) ==
    IF s = <<>> THEN <<>> ELSE EscapeChar(Head(s), quote) \o escape(Tail(s), quote)

-----------------------------------------------------------------------------
(* Python values *)

\* str | None, as the attribute maps hold it
NoneVal == [none |-> TRUE]
StrVal(s) == [none |-> FALSE, s |-> s]

VStr(s) == [kind |-> "str", s |-> s, safe |-> FALSE]
\* markupsafe.Markup: a str subclass that has __html__
VMarkup(s) == [kind |-> "str", s |-> s, safe |-> TRUE]
VBool(b) == [kind |-> "bool", b |-> b]
VNone == [kind |-> "none"]
VInt(n) == [kind |-> "int", n |-> n]
\* a dict, in insertion order: items are [key, val] with unique keys
VDict(items) == [kind |-> "dict", items |-> items]
VList(items) == [kind |-> "list", items |-> items]
VTuple(items) == [kind |-> "pytuple", items |-> items]
\* a value that is a Template: its parts
VTemplate(parts) == [kind |-> "template", parts |-> parts]
\* a callable: one that returns ret whatever it is called with, or, for
\* ret = Echo(tag), one that returns Element(tag, attrs, children) of the
\* arguments it is called with
VCallable(name, ret) == [kind |-> "callable", name |-> name, ret |-> ret]
Echo(tag) == [kind |-> "echo", tag |-> tag]
\* an exception, propagating
Raise(exc) == [kind |-> "error", exc |-> exc]
IsError(x) == x.kind = "error"

\* bool(value)
Truthy(v) ==
    CASE v.kind = "str" -> v.s # <<>>
      [] v.kind = "bool" -> v.b
      [] v.kind = "none" -> FALSE
      [] v.kind = "int" -> v.n # 0
      [] v.kind \in {"dict", "list", "pytuple"} -> v.items # <<>>
      [] OTHER -> TRUE

\* repr() of a str: quoted
ReprStr(s) == <<"'">> \o s \o <<"'">>

\* str(value) and repr(value); they differ on strings only
RECURSIVE PyFormat(_, _)
PyFormat(v, asRepr) ==
    CASE v.kind = "str" -> IF asRepr THEN ReprStr(v.s) ELSE v.s
      [] v.kind = "bool" -> IF v.b THEN <<"T", "r", "u", "e">> ELSE <<"F", "a", "l", "s", "e">>
      [] v.kind = "none" -> <<"N", "o", "n", "e">>
      [] v.kind = "int" -> IF v.n < 0 THEN <<"-">> \o StrNat(0 - v.n) ELSE StrNat(v.n)
      [] v.kind = "list" ->
            <<"[">> \o Join(<<",", " ">>,
                            [i \in 1..Len(v.items) |-> PyFormat(v.items[i], TRUE)])
                    \o <<"]">>
      [] v.kind = "pytuple" ->
            <<"(">> \o Join(<<",", " ">>,
                            [i \in 1..Len(v.items) |-> PyFormat(v.items[i], TRUE)])
                    \o (IF Len(v.items) = 1 THEN <<",", ")">> ELSE <<")">>)
      [] v.kind = "dict" ->
            <<"{">> \o Join(<<",", " ">>,
                            [i \in 1..Len(v.items) |->
                                ReprStr(v.items[i].key) \o <<":", " ">>
                                    \o PyFormat(v.items[i].val, TRUE)])
                    \o <<"}">>
      [] OTHER -> <<"<", v.kind, ">">>

PyStr(v) == PyFormat(v, FALSE)

-----------------------------------------------------------------------------
(* dict[str, str | None] in insertion order: a sequence of [key, val] *)

DictHas(d, k) == \E i \in 1..Len(d) : d[i].key = k

DictGet(d, k) == d[CHOOSE i \in 1..Len(d) : d[i].key = k].val

\* d[k] = v: a present key keeps its position and takes the new value
DictSet(d, k, v) ==
    IF DictHas(d, k)
    THEN [i \in 1..Len(d) |-> IF d[i].key = k THEN [key |-> k, val |-> v] ELSE d[i]]
    ELSE Append(d, [key |-> k, val |-> v])

\* d.update(e), and dict(pairs) as DictUpdate(<<>>, pairs)
RECURSIVE DictUpdate(_, _)
DictUpdate(d, e) ==
    IF e = <<>> THEN d
    ELSE DictUpdate(DictSet(d, e[1].key, e[1].val), Tail(e))

-----------------------------------------------------------------------------
(* Template parts.  The character-level tokenizer is an external           *)
(* collaborator; a template is given as the parts its text tokenizes to,   *)
(* each position that holds an interpolation marked as a slot:             *)
(*   [p |-> "data", s]                 a run of literal text               *)
(*   [p |-> "slot", v, fmt]            an interpolation in child content   *)
(*   [p |-> "start", tag, attrs]       a start tag                         *)
(*   [p |-> "end", tag]                an end tag                          *)
(* a tag is LitTag(s) or SlotTag(v); an attribute is LitAttr(key, val),    *)
(* ValueAttr(key, v) (key={v}) or SpreadAttr(v) ({v} in a name slot).      *)

PData(s) == [p |-> "data", s |-> s]
PSlot(v) == [p |-> "slot", v |-> v, fmt |-> ""]
\* {v:safe}
PSlotSafe(v) == [p |-> "slot", v |-> v, fmt |-> "safe"]
PStart(tag, attrs) == [p |-> "start", tag |-> tag, attrs |-> attrs]
PEnd(tag) == [p |-> "end", tag |-> tag]
LitTag(s) == [slot |-> FALSE, s |-> s]
SlotTag(v) == [slot |-> TRUE, v |-> v]
LitAttr(key, val) == [ak |-> "lit", key |-> key, val |-> val]
ValueAttr(key, v) == [ak |-> "value", key |-> key, v |-> v]
SpreadAttr(v) == [ak |-> "spread", v |-> v]
\* key="pre{v}post"
PartialAttr(key, pre, v, post) ==
    [ak |-> "partial", key |-> key, pre |-> pre, v |-> v, post |-> post]
\* the literal text before and after the interpolation in an attribute value
Pre(a) == IF a.ak = "partial" THEN a.pre ELSE <<>>
Post(a) == IF a.ak = "partial" THEN a.post ELSE <<>>

-----------------------------------------------------------------------------
(* element.py / html.py: the tree builder *)

VOID_ELEMENTS ==
    {<<"a", "r", "e", "a">>,
     <<"b", "a", "s", "e">>,
     <<"b", "r">>,
     <<"c", "o", "l">>,
     <<"e", "m", "b", "e", "d">>,
     <<"h", "r">>,
     <<"i", "m", "g">>,
     <<"i", "n", "p", "u", "t">>,
     <<"l", "i", "n", "k">>,
     <<"m", "e", "t", "a">>,
     <<"p", "a", "r", "a", "m">>,
     <<"s", "o", "u", "r", "c", "e">>,
     <<"t", "r", "a", "c", "k">>,
     <<"w", "b", "r">>}

\* ElementTuple and its str children
Tuple(tag, attrs, children) ==
    [kind |-> "tuple", tag |-> tag, attrs |-> attrs, children |-> children]
Str(s) == [kind |-> "str", s |-> s]

\* ElementParser.__init__
ParserInit == [stack |-> <<Tuple(S0, <<>>, <<>>)>>, err |-> "none"]

\* ElementParser.append_child
append_child(stk, child) ==
    [stk EXCEPT ![Len(stk)].children = Append(@, child)]

\* handle_endtag without the comparison of the popped tag with the closing tag
handle_endtag_NoTagCheck(ps, tag) ==
    IF Len(ps.stack) = 1
    THEN LET children == ps.stack[1].children IN
         IF tag \in VOID_ELEMENTS /\ children = <<>>
         THEN [ps EXCEPT !.err = "IndexError"]
         ELSE IF /\ tag \in VOID_ELEMENTS
                 /\ children[Len(children)].kind = "tuple"
                 /\ children[Len(children)].tag = tag
         THEN ps
         ELSE [ps EXCEPT !.err = "UnexpectedClosingTag"]
    ELSE [stack |-> append_child(SubSeq(ps.stack, 1, Len(ps.stack) - 1),
                                 ps.stack[Len(ps.stack)]),
          err |-> ps.err]

\* ElementParser.handle_endtag
handle_endtag(ps, tag) ==
    IF Len(ps.stack) = 1
    THEN LET children == ps.stack[1].children IN
         IF tag \in VOID_ELEMENTS
         THEN IF children = <<>>
              THEN [ps EXCEPT !.err = "IndexError"]
              ELSE IF children[Len(children)].kind = "tuple"
                      /\ children[Len(children)].tag = tag
              THEN ps
              ELSE [ps EXCEPT !.err = "UnexpectedClosingTag"]
         ELSE [ps EXCEPT !.err = "UnexpectedClosingTag"]
    ELSE LET element == ps.stack[Len(ps.stack)]
             popped == SubSeq(ps.stack, 1, Len(ps.stack) - 1)
         IN  IF element.tag # tag
             THEN [stack |-> popped, err |-> "MismatchedClosingTag"]
             ELSE [stack |-> append_child(popped, element), err |-> ps.err]

\* ElementParser.handle_starttag; attrs is the tokenizer's list of pairs
handle_starttag(ps, tag, attrs) ==
    LET element == Tuple(tag, DictUpdate(<<>>, attrs), <<>>)
        pushed == [ps EXCEPT !.stack = Append(@, element)]
    IN  IF tag \in VOID_ELEMENTS THEN handle_endtag(pushed, tag) ELSE pushed

\* ElementParser.handle_data
handle_data(ps, data) == [ps EXCEPT !.stack = append_child(@, Str(data))]

\* get_root without the check for frames left open
get_root_NoUnclosedCheck(ps) ==
    LET root == ps.stack[1] IN
    IF Len(root.children) = 1 /\ root.children[1].kind = "tuple"
    THEN root.children[1]
    ELSE root

\* get_root that unwraps a sole child whatever it is
get_root_UnwrapsAny(ps) ==
    IF Len(ps.stack) # 1 THEN Raise("UnclosedTags")
    ELSE LET root == ps.stack[1] IN
         IF Len(root.children) = 1 /\ root.children[1].kind = "tuple"
         THEN root.children[1]
         ELSE IF Len(root.children) > 1 /\ root.children[1].kind = "tuple"
         THEN root.children[1]
         ELSE root

\* ElementParser.get_root
get_root(ps) ==
    IF Len(ps.stack) # 1 THEN Raise("UnclosedTags")
    ELSE LET root == ps.stack[1] IN
         IF Len(root.children) = 1 /\ root.children[1].kind = "tuple"
         THEN root.children[1]
         ELSE root

-----------------------------------------------------------------------------
(* html.py: clsx *)

\* the keys of a dict whose values are truthy, in order
RECURSIVE TruthyKeys(_)
TruthyKeys(items) ==
    IF items = <<>> THEN <<>>
    ELSE (IF Truthy(items[1].val) THEN <<items[1].key>> ELSE <<>>)
            \o TruthyKeys(Tail(items))

NonEmpty(ss) == SelectSeq(ss, LAMBDA c : c # <<>>)

RECURSIVE clsx(_)

\* the loop body of clsx with an argument of any other type skipped
ClsxArg_SkipsOthers(arg) ==
    CASE arg.kind = "str" -> [ok |-> TRUE, names |-> <<arg.s>>]
      [] arg.kind \in {"list", "pytuple"} ->
            LET inner == clsx(arg.items) IN
            IF IsError(inner) THEN [ok |-> FALSE, names |-> <<>>]
            ELSE [ok |-> TRUE, names |-> <<inner.s>>]
      [] arg.kind = "dict" -> [ok |-> TRUE, names |-> TruthyKeys(arg.items)]
      [] OTHER -> [ok |-> TRUE, names |-> <<>>]

\* what one argument appends to `classes`; ok is FALSE where clsx raises
ClsxArg(arg) ==
    CASE arg.kind = "str" -> [ok |-> TRUE, names |-> <<arg.s>>]
      [] arg.kind \in {"list", "pytuple"} ->
            LET inner == clsx(arg.items) IN
            IF IsError(inner) THEN [ok |-> FALSE, names |-> <<>>]
            ELSE [ok |-> TRUE, names |-> <<inner.s>>]
      [] arg.kind = "dict" -> [ok |-> TRUE, names |-> TruthyKeys(arg.items)]
      [] arg.kind \in {"none", "bool"} -> [ok |-> TRUE, names |-> <<>>]
      [] OTHER -> [ok |-> FALSE, names |-> <<>>]

\* clsx(*args): a str value, or the ValueError
clsx(args) ==
    LET per == [i \in 1..Len(args) |-> ClsxArg(args[i])] IN
    IF \E i \in 1..Len(per) : ~per[i].ok
    THEN Raise("ValueError")
    ELSE LET classes == Concat([i \in 1..Len(per) |-> per[i].names])
             stripped == [i \in 1..Len(classes) |-> Strip(classes[i])]
         IN  VStr(Join(<<" ">>, NonEmpty(stripped)))

\* _clsx_single(arg): a str value, or the ValueError
_clsx_single(arg) ==
    CASE arg.kind = "str" -> VStr(Strip(arg.s))
      [] arg.kind \in {"list", "pytuple"} -> clsx(arg.items)
      [] arg.kind = "dict" -> VStr(Join(<<" ">>, TruthyKeys(arg.items)))
      [] arg.kind \in {"none", "bool"} -> VStr(<<>>)
      [] OTHER -> Raise("ValueError")

-----------------------------------------------------------------------------
(* html.py: the bookkeeping substitution *)

\* element.py: Element, after __post_init__
Element(tag, attrs, children) ==
    IF tag \in VOID_ELEMENTS /\ children # <<>> THEN Raise("ValueError")
    ELSE IF tag = S0 /\ attrs # <<>> THEN Raise("ValueError")
    ELSE [kind |-> "Element", tag |-> tag, attrs |-> attrs, children |-> children]

\* an attribute value that is the bool b (attrs: Mapping[str, str | bool])
BoolVal(b) == [none |-> FALSE, b |-> b]

\* str(value) of an attribute value
AttrValueStr(val) ==
    IF val.none THEN <<"N", "o", "n", "e">>
    ELSE IF "s" \in DOMAIN val THEN val.s
    ELSE PyStr(VBool(val.b))

\* indent * level
RECURSIVE Repeat(_, _)
Repeat(s, n) == IF n = 0 THEN <<>> ELSE s \o Repeat(s, n - 1)

\* Element._render(indent, level)
RECURSIVE _render(_, _, _)
_render(e, indent, level) ==
    LET newline == IF indent # <<>> THEN <<"\n">> ELSE <<>>
        indent_str == Repeat(indent, level)
        attrs_str ==
            Concat([i \in 1..Len(e.attrs) |->
                      IF e.attrs[i].val = BoolVal(TRUE) THEN <<" ">> \o e.attrs[i].key
                      ELSE <<" ">> \o e.attrs[i].key \o <<"=", "\"">>
                             \o escape(AttrValueStr(e.attrs[i].val), TRUE) \o <<"\"">>])
    IN
    IF e.tag = S0
    THEN Join(newline, [i \in 1..Len(e.children) |->
                          IF e.children[i].kind = "Element"
                          THEN _render(e.children[i], indent, level)
                          ELSE indent_str \o escape(e.children[i].s, FALSE)])
    ELSE IF e.tag \in VOID_ELEMENTS
    THEN indent_str \o <<"<">> \o e.tag \o attrs_str \o <<" ", "/", ">">>
    ELSE IF e.children = <<>>
    THEN indent_str \o <<"<">> \o e.tag \o attrs_str \o <<">", "<", "/">> \o e.tag \o <<">">>
    ELSE LET children_str ==
                 Join(newline, [i \in 1..Len(e.children) |->
                                  IF e.children[i].kind = "Element"
                                  THEN _render(e.children[i], indent, level + 1)
                                  ELSE indent_str \o indent \o escape(e.children[i].s, FALSE)])
         IN  indent_str \o <<"<">> \o e.tag \o attrs_str \o <<">">> \o newline
               \o children_str \o newline \o indent_str \o <<"<", "/">> \o e.tag \o <<">">>

\* Element.render(indent, level)
render(e, indent, level) == _render(e, Repeat(<<" ">>, indent), level)

\* the first error of a sequence of results, if any
FirstError(rs) ==
    IF \E i \in 1..Len(rs) : IsError(rs[i])
    THEN rs[CHOOSE i \in 1..Len(rs) :
                IsError(rs[i]) /\ \A j \in 1..(i - 1) : ~IsError(rs[j])]
    ELSE [kind |-> "ok"]

DataAttrs(prefix, items) ==
    [i \in 1..Len(items) |->
        [key |-> prefix \o items[i].key, val |-> StrVal(PyStr(items[i].val))]]

\* _attrs._process_attr_key: [kind |-> "attrs", d] or an error
_process_attr_key(key, value) ==
    IF key = <<"c", "l", "a", "s", "s">>
    THEN LET c == _clsx_single(value) IN
         IF IsError(c) THEN c
         ELSE [kind |-> "attrs", d |-> <<[key |-> key, val |-> StrVal(c.s)]>>]
    ELSE IF key = <<"d", "a", "t", "a">>
    THEN IF value.kind = "dict"
         THEN [kind |-> "attrs", d |-> DataAttrs(<<"d", "a", "t", "a", "-">>, value.items)]
         ELSE Raise("ValueError")
    ELSE IF key = <<"a", "r", "i", "a">>
    THEN IF value.kind = "dict"
         THEN [kind |-> "attrs", d |-> DataAttrs(<<"a", "r", "i", "a", "-">>, value.items)]
         ELSE Raise("ValueError")
    ELSE IF value.kind = "str"
    THEN [kind |-> "attrs", d |-> <<[key |-> key, val |-> StrVal(value.s)]>>]
    ELSE IF value.kind = "none" \/ (value.kind = "bool" /\ ~value.b)
    THEN [kind |-> "attrs", d |-> <<>>]
    ELSE IF value.kind = "bool" /\ value.b
    THEN [kind |-> "attrs", d |-> <<[key |-> key, val |-> NoneVal]>>]
    ELSE [kind |-> "attrs", d |-> <<[key |-> key, val |-> StrVal(PyStr(value))]>>]

\* the loop of _attrs over a spread dict: result.update per entry
RECURSIVE SpreadOld(_, _)
SpreadOld(res, items) ==
    IF items = <<>> THEN [kind |-> "attrs", d |-> res]
    ELSE LET r == _process_attr_key(items[1].key, items[1].val) IN
         IF IsError(r) THEN r
         ELSE SpreadOld(DictUpdate(res, r.d), Tail(items))

\* the loop of _attrs, from the entries still to visit and the result so far
RECURSIVE AttrsLoop(_, _, _)
AttrsLoop(attrs, bk, res) ==
    IF attrs = <<>> THEN [kind |-> "attrs", d |-> res]
    ELSE LET key == attrs[1].key
             value == attrs[1].val
             rest == Tail(attrs)
         IN
         IF ~value.none
         THEN IF DictHas(bk, value.s)
              THEN LET r == _process_attr_key(key, DictGet(bk, value.s)) IN
                   IF IsError(r) THEN r
                   ELSE AttrsLoop(rest, bk, DictUpdate(res, r.d))
              ELSE AttrsLoop(rest, bk, DictSet(res, key, value))
         ELSE IF DictHas(bk, key)
              THEN LET bk_value == DictGet(bk, key) IN
                   IF bk_value.kind = "str"
                   THEN AttrsLoop(rest, bk, DictSet(res, bk_value.s, NoneVal))
                   ELSE IF bk_value.kind = "dict"
                   THEN LET r == SpreadOld(res, bk_value.items) IN
                        IF IsError(r) THEN r ELSE AttrsLoop(rest, bk, r.d)
                   ELSE Raise("ValueError")
              ELSE AttrsLoop(rest, bk, DictSet(res, key, NoneVal))

\* _attrs(attrs, bookkeep)
_attrs(attrs, bk) == AttrsLoop(attrs, bk, <<>>)

-----------------------------------------------------------------------------
(* html.py: html(), one template part at a time *)

\* the locals of html() and its parser, before the loop
HtmlInit == [ps |-> ParserInit, count |-> 0, callables |-> <<>>, bookkeep |-> <<>>]

\* the key html() feeds for an interpolation of value v
KeyOf(hs, v) ==
    LET key == <<"t", "s", "-", "b", "k", "-">> \o StrNat(hs.count) IN
    IF v.kind = "callable" /\ DictHas(hs.callables, v)
    THEN DictGet(hs.callables, v)
    ELSE key

\* the bookkeeping html() does for an interpolation of value v
Registered(hs, v) ==
    [hs EXCEPT !.callables = IF v.kind = "callable"
                             THEN DictSet(@, v, KeyOf(hs, v)) ELSE @,
               !.bookkeep = DictSet(@, KeyOf(hs, v), v),
               !.count = @ + 1]

\* the interpolations inside one start tag, in source order, and the
\* attribute list the tokenizer then hands to handle_starttag
RECURSIVE FeedAttrs(_, _, _)
FeedAttrs(hs, specs, acc) ==
    IF specs = <<>> THEN [hs |-> hs, pairs |-> acc]
    ELSE LET a == Head(specs) IN
         CASE a.ak = "lit" ->
                FeedAttrs(hs, Tail(specs), Append(acc, [key |-> a.key, val |-> a.val]))
           [] a.ak \in {"value", "partial"} ->
                FeedAttrs(Registered(hs, a.v), Tail(specs),
                          Append(acc, [key |-> a.key,
                                       val |-> StrVal(Pre(a) \o KeyOf(hs, a.v) \o Post(a))]))
           [] a.ak = "spread" ->
                FeedAttrs(Registered(hs, a.v), Tail(specs),
                          Append(acc, [key |-> KeyOf(hs, a.v), val |-> NoneVal]))

\* the name in a tag position, and the bookkeeping for it
TagName(hs, tag) == IF tag.slot THEN KeyOf(hs, tag.v) ELSE tag.s
TagFed(hs, tag) == IF tag.slot THEN Registered(hs, tag.v) ELSE hs

\* the body of the loop of html() for the text that makes up one part
FeedPart(hs, part) ==
    IF hs.ps.err # "none" THEN hs
    ELSE CASE part.p = "data" -> [hs EXCEPT !.ps = handle_data(@, part.s)]
           [] part.p = "slot" ->
                [Registered(hs, part.v) EXCEPT !.ps = handle_data(@, KeyOf(hs, part.v))]
           [] part.p = "start" ->
                LET f == FeedAttrs(TagFed(hs, part.tag), part.attrs, <<>>) IN
                [f.hs EXCEPT !.ps = handle_starttag(@, TagName(hs, part.tag), f.pairs)]
           [] part.p = "end" ->
                [TagFed(hs, part.tag) EXCEPT !.ps = handle_endtag(@, TagName(hs, part.tag))]

RECURSIVE FeedAll(_, _)
FeedAll(hs, parts) ==
    IF parts = <<>> THEN hs ELSE FeedAll(FeedPart(hs, Head(parts)), Tail(parts))

(* What follows the loop of html() is computed together with the         *)
(* invocations of callables it makes: each operator below yields          *)
(* [val, calls], where val is what the function returns or raises and     *)
(* calls the invocations it made, in the order it made them.              *)

Ran(val, calls) == [val |-> val, calls |-> calls]

\* bk_value(*children, **attrs)
Invoke(f, children, attrs) ==
    IF f.ret.kind = "echo" THEN Element(f.ret.tag, attrs, children) ELSE f.ret

\* one invocation: bk_value(*children, **attrs)
Call(f, children, attrs) == [f |-> f.name, args |-> children, kwargs |-> attrs]

\* what a loop has invoked when it stops at the first result that is an
\* error: rs[i] is what the i-th iteration ran
UpToError(rs) ==
    LET bad == {i \in 1..Len(rs) : IsError(rs[i].val)}
        last == IF bad = {} THEN Len(rs)
                ELSE CHOOSE i \in bad : \A j \in bad : i <= j
    IN  Concat([i \in 1..last |-> rs[i].calls])

RECURSIVE HtmlRun(_)
RECURSIVE _element_from_tuple(_, _)

\* what _children appends for one item of a list or tuple value
ChildItem(item) ==
    CASE item.kind \in {"Element", "str"} ->
            Ran(IF item.kind = "str" THEN Str(item.s) ELSE item, <<>>)
      [] item.kind = "template" -> HtmlRun(item.parts)
      [] OTHER -> Ran(Str(PyStr(item)), <<>>)

\* one loop of _children over the items of a list or tuple value: val is
\* the sequence appended, with an error in it if an item raised
ChildItems(items) ==
    LET rs == [i \in 1..Len(items) |-> ChildItem(items[i])] IN
    Ran([i \in 1..Len(items) |-> rs[i].val], UpToError(rs))

\* what _children appends for one child: val is a sequence, with an error
\* in it if the child raised
Child(child, bk) ==
    IF child.kind = "str"
    THEN IF DictHas(bk, child.s)
         THEN LET bk_value == DictGet(bk, child.s) IN
              CASE bk_value.kind = "str" -> Ran(<<Str(bk_value.s)>>, <<>>)
                [] bk_value.kind = "Element" -> Ran(<<bk_value>>, <<>>)
                [] bk_value.kind = "template" ->
                     LET r == HtmlRun(bk_value.parts) IN Ran(<<r.val>>, r.calls)
                [] bk_value.kind \in {"list", "pytuple"} -> ChildItems(bk_value.items)
                [] OTHER -> Ran(<<Str(PyStr(bk_value))>>, <<>>)
         ELSE Ran(<<child>>, <<>>)
    ELSE LET r == _element_from_tuple(child, bk) IN Ran(<<r.val>>, r.calls)

\* _children(children, bookkeep): val is [kind |-> "children", c] or an error
_children(children, bk) ==
    LET rs == [i \in 1..Len(children) |-> Child(children[i], bk)]
        all == Concat([i \in 1..Len(children) |-> rs[i].val])
        e == FirstError(all)
    IN  Ran(IF IsError(e) THEN e ELSE [kind |-> "children", c |-> all],
            UpToError([i \in 1..Len(children) |->
                         Ran(FirstError(rs[i].val), rs[i].calls)]))

\* _resolve_tag that calls the callable with the attributes alone
_resolve_tag_NoChildren(tag, bk, attrs, children) ==
    IF DictHas(bk, tag)
    THEN LET bk_value == DictGet(bk, tag) IN
         IF bk_value.kind = "str" THEN Ran([kind |-> "tag", s |-> bk_value.s], <<>>)
         ELSE IF bk_value.kind = "callable"
         THEN LET res == Invoke(bk_value, <<>>, attrs)
                  called == <<Call(bk_value, <<>>, attrs)>>
              IN
              CASE res.kind = "Element" -> Ran(res, called)
                [] res.kind = "str" -> Ran([kind |-> "tag", s |-> res.s], called)
                [] res.kind = "template" ->
                     LET r == HtmlRun(res.parts) IN Ran(r.val, called \o r.calls)
                [] OTHER -> Ran(Raise("ValueError"), called)
         ELSE Ran(Raise("ValueError"), <<>>)
    ELSE Ran([kind |-> "tag", s |-> tag], <<>>)

\* _resolve_tag(tag, bookkeep, attrs, children): val is [kind |-> "tag", s],
\* an Element, or an error
_resolve_tag(tag, bk, attrs, children) ==
    IF DictHas(bk, tag)
    THEN LET bk_value == DictGet(bk, tag) IN
         IF bk_value.kind = "str" THEN Ran([kind |-> "tag", s |-> bk_value.s], <<>>)
         ELSE IF bk_value.kind = "callable"
         THEN LET res == Invoke(bk_value, children, attrs)
                  called == <<Call(bk_value, children, attrs)>>
              IN
              CASE res.kind = "Element" -> Ran(res, called)
                [] res.kind = "str" -> Ran([kind |-> "tag", s |-> res.s], called)
                [] res.kind = "template" ->
                     LET r == HtmlRun(res.parts) IN Ran(r.val, called \o r.calls)
                [] OTHER -> Ran(Raise("ValueError"), called)
         ELSE Ran(Raise("ValueError"), <<>>)
    ELSE Ran([kind |-> "tag", s |-> tag], <<>>)

\* _element_from_tuple(element, bookkeep)
_element_from_tuple(element, bk) ==
    LET attrs == _attrs(element.attrs, bk) IN
    IF IsError(attrs) THEN Ran(attrs, <<>>)
    ELSE LET children == _children(element.children, bk) IN
         IF IsError(children.val) THEN children
         ELSE LET tag_or_elt == _resolve_tag(element.tag, bk, attrs.d, children.val.c) IN
              Ran(IF tag_or_elt.val.kind = "tag"
                  THEN Element(tag_or_elt.val.s, attrs.d, children.val.c)
                  ELSE tag_or_elt.val,
                  children.calls \o tag_or_elt.calls)

\* html(): what follows the loop, from the locals the loop left
HtmlFinish(hs) ==
    IF hs.ps.err # "none" THEN Ran(Raise(hs.ps.err), <<>>)
    ELSE LET root == get_root(hs.ps) IN
         IF IsError(root) THEN Ran(root, <<>>) ELSE _element_from_tuple(root, hs.bookkeep)

\* html(template), for a template that is a value
HtmlRun(parts) == HtmlFinish(FeedAll(HtmlInit, parts))

\* what html(template) returns or raises, and the invocations it makes
Html(parts) == HtmlRun(parts).val
HtmlCalls(parts) == HtmlRun(parts).calls

-----------------------------------------------------------------------------
(* nodes.py: the node model and its rendering *)

CDATA_CONTENT_ELEMENTS == {<<"s", "c", "r", "i", "p", "t">>, <<"s", "t", "y", "l", "e">>}
RCDATA_CONTENT_ELEMENTS ==
    {<<"t", "e", "x", "t", "a", "r", "e", "a">>, <<"t", "i", "t", "l", "e">>}
CONTENT_ELEMENTS == CDATA_CONTENT_ELEMENTS \cup RCDATA_CONTENT_ELEMENTS

\* Text(text); safe says that text has __html__ (a Markup)
Text(text, safe) == [kind |-> "Text", text |-> text, safe |-> safe]

Fragment(children) == [kind |-> "Fragment", children |-> children]

\* nodes.Element, after __post_init__
NodeElement(tag, attrs, children) ==
    IF tag = S0 THEN Raise("ValueError")
    ELSE IF tag \in VOID_ELEMENTS /\ children # <<>> THEN Raise("ValueError")
    ELSE [kind |-> "Element", tag |-> tag, attrs |-> attrs, children |-> children]

\* Text._cached_str
Text__str__(n) == IF n.safe THEN n.text ELSE escape(n.text, FALSE)

\* Text._as_unescaped
_as_unescaped(n) == n.text

\* the attrs_str of Element.__str__
AttrsStr(attrs) ==
    Concat([i \in 1..Len(attrs) |->
              IF attrs[i].val.none THEN <<" ">> \o attrs[i].key
              ELSE <<" ">> \o attrs[i].key \o <<"=", "\"">>
                     \o escape(attrs[i].val.s, TRUE) \o <<"\"">>])

RECURSIVE NodeStr(_)

\* Element.__str__
Element__str__(n) ==
    LET attrs_str == AttrsStr(n.attrs) IN
    IF n.tag \in VOID_ELEMENTS
    THEN <<"<">> \o n.tag \o attrs_str \o <<" ", "/", ">">>
    ELSE IF n.children = <<>>
    THEN <<"<">> \o n.tag \o attrs_str \o <<">", "<", "/">> \o n.tag \o <<">">>
    ELSE LET children_str ==
                 IF n.tag \in CONTENT_ELEMENTS
                 THEN Concat([i \in 1..Len(n.children) |->
                                IF n.children[i].kind = "Text"
                                THEN _as_unescaped(n.children[i])
                                ELSE NodeStr(n.children[i])])
                 ELSE Concat([i \in 1..Len(n.children) |-> NodeStr(n.children[i])])
         IN  <<"<">> \o n.tag \o attrs_str \o <<">">> \o children_str
                \o <<"<", "/">> \o n.tag \o <<">">>

\* Fragment.__str__
Fragment__str__(n) == Concat([i \in 1..Len(n.children) |-> NodeStr(n.children[i])])

\* str(node)
NodeStr(n) ==
    CASE n.kind = "Text" -> Text__str__(n)
      [] n.kind = "Element" -> Element__str__(n)
      [] n.kind = "Fragment" -> Fragment__str__(n)

-----------------------------------------------------------------------------
(* processor.py: the placeholder codec *)

\* "t", a snake and "-", four random lowercase letters, "-"; the snake is
\* written "$" here
_PLACEHOLDER_PREFIX == <<"t", "$", "-">> \o salt \o <<"-">>

_PP_LEN == Len(_PLACEHOLDER_PREFIX)

_placeholder(i) == _PLACEHOLDER_PREFIX \o StrNat(i)

\* _placholder_index(s): [ok, n], ok FALSE where int() raises ValueError
_placholder_index(s) == PyInt(SubSeq(s, _PP_LEN + 1, Len(s)))

\* an Interpolation: its value and its format_spec
Interpolation(value, fmt) == [value |-> value, fmt |-> fmt]

\* _format_safe: Markup(value)
_format_safe(value, format_spec) == VMarkup(PyStr(value))

\* utils.format_interpolation: the formatter named by the format spec is
\* applied, and a value with no format spec and no conversion is returned as is
base_format_interpolation(interpolation) ==
    IF interpolation.fmt = "safe"
    THEN _format_safe(interpolation.value, interpolation.fmt)
    ELSE interpolation.value

format_interpolation(interpolation) == base_format_interpolation(interpolation)

\* format_interpolation(interpolations[int(s[_PP_LEN:])]), with the
\* exceptions of int() and of tuple indexing
InterpolationAt(s, interpolations) ==
    LET index == _placholder_index(s)
        n == Len(interpolations)
    IN  IF ~index.ok THEN Raise("ValueError")
        ELSE IF index.n >= 0 /\ index.n < n
        THEN format_interpolation(interpolations[index.n + 1])
        ELSE IF index.n < 0 /\ index.n >= 0 - n
        THEN format_interpolation(interpolations[n + index.n + 1])
        ELSE Raise("IndexError")

-----------------------------------------------------------------------------
(* processor.py: attribute substitution *)

AttrsOk(d) == [kind |-> "attrs", d |-> d]

\* one element of an iterable handed to dict(): a pair, or not (keys are
\* strings in every value considered here)
IsPair(item) ==
    \/ item.kind \in {"list", "pytuple"} /\ Len(item.items) = 2 /\ item.items[1].kind = "str"
    \/ item.kind = "str" /\ Len(item.s) = 2

PairOf(item) ==
    IF item.kind = "str"
    THEN [key |-> <<item.s[1]>>, val |-> VStr(<<item.s[2]>>)]
    ELSE [key |-> item.items[1].s, val |-> item.items[2]]

\* _force_dict(value): dict(value), or the TypeError
_force_dict(value) ==
    CASE value.kind = "dict" -> VDict(value.items)
      [] value.kind \in {"list", "pytuple"}
            /\ \A i \in 1..Len(value.items) : IsPair(value.items[i]) ->
            VDict(DictUpdate(<<>>, [i \in 1..Len(value.items) |-> PairOf(value.items[i])]))
      [] value.kind = "str" /\ value.s = <<>> -> VDict(<<>>)
      [] OTHER -> Raise("TypeError")

\* x in (False, None): by equality, so 0 counts
InFalseNone(v) ==
    \/ v.kind = "none"
    \/ v.kind = "bool" /\ ~v.b
    \/ v.kind = "int" /\ v.n = 0

IsTrue(v) == v.kind = "bool" /\ v.b

\* the results of the parts of one generator, in order: the first exception,
\* or everything yielded
Yielded(rs) ==
    LET e == FirstError(rs) IN
    IF IsError(e) THEN e ELSE AttrsOk(Concat([i \in 1..Len(rs) |-> rs[i].d]))

\* _substitute_aria_attrs that leaves False out as it leaves None out
_substitute_aria_attrs_FalseOmitted(value) ==
    LET d == _force_dict(value) IN
    IF IsError(d) THEN d
    ELSE AttrsOk(Concat([i \in 1..Len(d.items) |->
            LET sub_k == <<"a", "r", "i", "a", "-">> \o d.items[i].key
                sub_v == d.items[i].val
            IN  IF IsTrue(sub_v)
                THEN <<[key |-> sub_k, val |-> StrVal(<<"t", "r", "u", "e">>)]>>
                ELSE IF sub_v.kind \in {"bool", "none"} THEN <<>>
                ELSE <<[key |-> sub_k, val |-> StrVal(PyStr(sub_v))]>>]))

\* _substitute_aria_attrs
_substitute_aria_attrs(value) ==
    LET d == _force_dict(value) IN
    IF IsError(d) THEN d
    ELSE AttrsOk(Concat([i \in 1..Len(d.items) |->
            LET sub_k == <<"a", "r", "i", "a", "-">> \o d.items[i].key
                sub_v == d.items[i].val
            IN  IF IsTrue(sub_v)
                THEN <<[key |-> sub_k, val |-> StrVal(<<"t", "r", "u", "e">>)]>>
                ELSE IF sub_v.kind = "bool"
                THEN <<[key |-> sub_k, val |-> StrVal(<<"f", "a", "l", "s", "e">>)]>>
                ELSE IF sub_v.kind = "none" THEN <<>>
                ELSE <<[key |-> sub_k, val |-> StrVal(PyStr(sub_v))]>>]))

\* the entries a dict contributes: true is a bare attribute, False and None
\* are left out, anything else is stringified
BoolishItems(prefix, items) ==
    Concat([i \in 1..Len(items) |->
        IF IsTrue(items[i].val)
        THEN <<[key |-> prefix \o items[i].key, val |-> NoneVal]>>
        ELSE IF ~InFalseNone(items[i].val)
        THEN <<[key |-> prefix \o items[i].key, val |-> StrVal(PyStr(items[i].val))]>>
        ELSE <<>>])

\* _substitute_data_attrs
_substitute_data_attrs(value) ==
    LET d == _force_dict(value) IN
    IF IsError(d) THEN d
    ELSE AttrsOk(BoolishItems(<<"d", "a", "t", "a", "-">>, d.items))

\* classnames.classnames: the class-list helper
classnames(value) == clsx(<<value>>)

\* _substitute_class_attr
_substitute_class_attr(value) ==
    LET c == classnames(value) IN
    IF IsError(c) THEN c
    ELSE AttrsOk(<<[key |-> <<"c", "l", "a", "s", "s">>, val |-> StrVal(c.s)]>>)

\* _substitute_style_attr
_substitute_style_attr(value) ==
    LET d == _force_dict(value) IN
    IF IsError(d)
    THEN AttrsOk(<<[key |-> <<"s", "t", "y", "l", "e">>, val |-> StrVal(PyStr(value))]>>)
    ELSE AttrsOk(<<[key |-> <<"s", "t", "y", "l", "e">>,
                    val |-> StrVal(Join(<<";", " ">>,
                              [i \in 1..Len(d.items) |->
                                 d.items[i].key \o <<":", " ">> \o PyStr(d.items[i].val)]))]>>)

\* the general handling of _substitute_attr with True stringified
GeneralAttr_TrueAsString(key, value) ==
    CASE value.kind = "str" -> AttrsOk(<<[key |-> key, val |-> StrVal(value.s)]>>)
      [] value.kind = "bool" -> AttrsOk(<<[key |-> key, val |-> StrVal(PyStr(value))]>>)
      [] value.kind = "none" -> AttrsOk(<<>>)
      [] value.kind = "dict" -> AttrsOk(BoolishItems(<<>>, value.items))
      [] OTHER -> Raise("TypeError")

\* _substitute_attr: the match statement (the first item of a pair is a
\* string in every value considered here)
GeneralAttr(key, value) ==
    CASE value.kind = "str" -> AttrsOk(<<[key |-> key, val |-> StrVal(value.s)]>>)
      [] IsTrue(value) -> AttrsOk(<<[key |-> key, val |-> NoneVal]>>)
      [] value.kind = "bool" /\ ~value.b -> AttrsOk(<<>>)
      [] value.kind = "none" -> AttrsOk(<<>>)
      [] value.kind = "dict" -> AttrsOk(BoolishItems(<<>>, value.items))
      [] value.kind \in {"list", "pytuple"} ->
            Yielded([i \in 1..Len(value.items) |->
                LET item == value.items[i] IN
                IF item.kind = "pytuple" /\ Len(item.items) = 2
                THEN AttrsOk(BoolishItems(<<>>,
                       <<[key |-> item.items[1].s, val |-> item.items[2]]>>))
                ELSE IF item.kind = "str"
                THEN AttrsOk(<<[key |-> item.s, val |-> NoneVal]>>)
                ELSE Raise("TypeError")])
      [] OTHER -> Raise("TypeError")

\* _substitute_attr(key, value), with CUSTOM_ATTR_HANDLERS
_substitute_attr(key, value) ==
    CASE key = <<"c", "l", "a", "s", "s">> -> _substitute_class_attr(value)
      [] key = <<"d", "a", "t", "a">> -> _substitute_data_attrs(value)
      [] key = <<"s", "t", "y", "l", "e">> -> _substitute_style_attr(value)
      [] key = <<"a", "r", "i", "a">> -> _substitute_aria_attrs(value)
      [] OTHER -> GeneralAttr(key, value)

\* _substitute_spread_attrs
_substitute_spread_attrs(value) ==
    LET d == _force_dict(value) IN
    IF IsError(d) THEN d
    ELSE Yielded([i \in 1..Len(d.items) |->
                     _substitute_attr(d.items[i].key, d.items[i].val)])

\* the loop of _substitute_attrs, from the entries still to visit
RECURSIVE SubstituteAttrsLoop(_, _, _)
SubstituteAttrsLoop(attrs, interpolations, new_attrs) ==
    IF attrs = <<>> THEN AttrsOk(new_attrs)
    ELSE LET key == attrs[1].key
             value == attrs[1].val
             rest == Tail(attrs)
         IN
         IF ~value.none /\ value.s # <<>> /\ StartsWith(value.s, _PLACEHOLDER_PREFIX)
         THEN LET v == InterpolationAt(value.s, interpolations) IN
              IF IsError(v) THEN v
              ELSE LET r == _substitute_attr(key, v) IN
                   IF IsError(r) THEN r
                   ELSE SubstituteAttrsLoop(rest, interpolations, DictUpdate(new_attrs, r.d))
         ELSE IF StartsWith(key, _PLACEHOLDER_PREFIX)
         THEN LET v == InterpolationAt(key, interpolations) IN
              IF IsError(v) THEN v
              ELSE LET r == _substitute_spread_attrs(v) IN
                   IF IsError(r) THEN r
                   ELSE SubstituteAttrsLoop(rest, interpolations, DictUpdate(new_attrs, r.d))
         ELSE SubstituteAttrsLoop(rest, interpolations, DictSet(new_attrs, key, value))

\* _substitute_attrs(attrs, interpolations)
_substitute_attrs(attrs, interpolations) ==
    SubstituteAttrsLoop(attrs, interpolations, <<>>)

-----------------------------------------------------------------------------
(* The Template of a sequence of parts: the literal text between the       *)
(* interpolations (strings) and the interpolations, as the t-string gives  *)
(* them to html()                                                          *)

EmptyTemplate == [strings |-> << <<>> >>, interpolations |-> <<>>]

AddText(t, s) == [t EXCEPT !.strings[Len(t.strings)] = @ \o s]

AddSlot(t, v, fmt) ==
    [strings |-> Append(t.strings, <<>>),
     interpolations |-> Append(t.interpolations, Interpolation(v, fmt))]

AttrSource(t, a) ==
    CASE a.ak = "lit" ->
            AddText(t, <<" ">> \o a.key \o
                       (IF a.val.none THEN <<>>
                        ELSE <<"=", "\"">> \o a.val.s \o <<"\"">>))
      [] a.ak = "value" -> AddSlot(AddText(t, <<" ">> \o a.key \o <<"=">>), a.v, "")
      [] a.ak = "spread" -> AddSlot(AddText(t, <<" ">>), a.v, "")
      [] a.ak = "partial" ->
            AddText(AddSlot(AddText(t, <<" ">> \o a.key \o <<"=", "\"">> \o a.pre), a.v, ""),
                    a.post \o <<"\"">>)

RECURSIVE AttrsSource(_, _)
AttrsSource(t, specs) ==
    IF specs = <<>> THEN t ELSE AttrsSource(AttrSource(t, Head(specs)), Tail(specs))

TagSource(t, tag) == IF tag.slot THEN AddSlot(t, tag.v, "") ELSE AddText(t, tag.s)

PartSource(t, part) ==
    CASE part.p = "data" -> AddText(t, part.s)
      [] part.p = "slot" -> AddSlot(t, part.v, part.fmt)
      [] part.p = "start" ->
            AddText(AttrsSource(TagSource(AddText(t, <<"<">>), part.tag), part.attrs),
                    <<">">>)
      [] part.p = "end" -> AddText(TagSource(AddText(t, <<"<", "/">>), part.tag), <<">">>)

RECURSIVE PartsSource(_, _)
PartsSource(t, parts) ==
    IF parts = <<>> THEN t ELSE PartsSource(PartSource(t, Head(parts)), Tail(parts))

TemplateOf(parts) == PartsSource(EmptyTemplate, parts)

-----------------------------------------------------------------------------
(* processor.py: instrumentation and parsing *)

\* _instrument with every placeholder numbered 0
_instrument_SameIndex(strings) ==
    LET n_strings == Len(strings) IN
    Concat([j \in 1..n_strings |->
              IF j - 1 < n_strings - 1 THEN <<strings[j], _placeholder(0)>>
              ELSE <<strings[j]>>])

\* _instrument(strings): the chunks it yields, in order
_instrument(strings) ==
    LET n_strings == Len(strings) IN
    Concat([j \in 1..n_strings |->
              IF j - 1 < n_strings - 1 THEN <<strings[j], _placeholder(j - 1)>>
              ELSE <<strings[j]>>])

\* the chunk that stands where interpolation n was
SlotChunk(instrumented, n) ==
    IF 2 * n + 2 <= Len(instrumented) THEN instrumented[2 * n + 2] ELSE <<>>

\* the tokenizer over the attributes of one start tag: the list of pairs,
\* and the number of interpolations passed
RECURSIVE TokenAttrs(_, _, _, _)
TokenAttrs(specs, instrumented, n, acc) ==
    IF specs = <<>> THEN [n |-> n, pairs |-> acc]
    ELSE LET a == Head(specs) IN
         CASE a.ak = "lit" ->
                TokenAttrs(Tail(specs), instrumented, n, Append(acc, [key |-> a.key, val |-> a.val]))
           [] a.ak \in {"value", "partial"} ->
                TokenAttrs(Tail(specs), instrumented, n + 1,
                           Append(acc, [key |-> a.key,
                                        val |-> StrVal(Pre(a) \o SlotChunk(instrumented, n)
                                                         \o Post(a))]))
           [] a.ak = "spread" ->
                TokenAttrs(Tail(specs), instrumented, n + 1,
                           Append(acc, [key |-> SlotChunk(instrumented, n), val |-> NoneVal]))

\* the tokenizer over the instrumented text: the events it emits for the
\* parts, each interpolation read as the chunk that stands in its place
RECURSIVE Tokens(_, _, _)
Tokens(parts, instrumented, n) ==
    IF parts = <<>> THEN <<>>
    ELSE LET part == Head(parts)
             rest == Tail(parts)
         IN
         CASE part.p = "data" -> <<[p |-> "data", s |-> part.s]>> \o Tokens(rest, instrumented, n)
           [] part.p = "slot" ->
                <<[p |-> "data", s |-> SlotChunk(instrumented, n)]>> \o Tokens(rest, instrumented, n + 1)
           [] part.p = "start" ->
                LET m == IF part.tag.slot THEN n + 1 ELSE n
                    a == TokenAttrs(part.attrs, instrumented, m, <<>>)
                IN  <<[p |-> "start",
                       tag |-> IF part.tag.slot THEN SlotChunk(instrumented, n) ELSE part.tag.s,
                       attrs |-> a.pairs]>> \o Tokens(rest, instrumented, a.n)
           [] part.p = "end" ->
                <<[p |-> "end",
                   tag |-> IF part.tag.slot THEN SlotChunk(instrumented, n) ELSE part.tag.s]>>
                  \o Tokens(rest, instrumented, IF part.tag.slot THEN n + 1 ELSE n)

\* the tree builder over the events: the stack discipline of ElementParser
RECURSIVE Build(_, _)
Build(ps, events) ==
    IF events = <<>> \/ ps.err # "none" THEN ps
    ELSE LET e == Head(events) IN
         Build(CASE e.p = "data" -> handle_data(ps, e.s)
                 [] e.p = "start" -> handle_starttag(ps, e.tag, e.attrs)
                 [] e.p = "end" -> handle_endtag(ps, e.tag),
               Tail(events))

\* the Node of a built tuple
RECURSIVE NodeOfTuple(_)
NodeOfTuple(x) ==
    IF x.kind = "str" THEN Text(x.s, FALSE)
    ELSE LET children == [i \in 1..Len(x.children) |-> NodeOfTuple(x.children[i])] IN
         IF x.tag = S0 THEN Fragment(children)
         ELSE NodeElement(x.tag, x.attrs, children)

\* parser.parse_html_iter: the placeholder tree of the events, or the error
parse_html_iter(events) ==
    LET ps == Build(ParserInit, events) IN
    IF ps.err # "none" THEN Raise(ps.err)
    ELSE LET root == get_root(ps) IN
         IF IsError(root) THEN root ELSE NodeOfTuple(root)

\* _instrument_and_parse(template.strings), for the template of the parts
_instrument_and_parse(parts) ==
    parse_html_iter(Tokens(parts, _instrument(TemplateOf(parts).strings), 0))

\* @lru_cache() on _instrument_and_parse: the default maxsize of functools
maxsize == 128

\* a lookup that takes the most recently used entry for every key
CacheIndex_AnyEntry(c, key) == Len(c)

\* where the key stands in the cache, 0 when it is not there
CacheIndex(c, key) ==
    IF \E i \in 1..Len(c) : c[i].key = key
    THEN CHOOSE i \in 1..Len(c) : c[i].key = key
    ELSE 0

\* a hit: the entry becomes the most recently used
CacheHit(c, i) ==
    SubSeq(c, 1, i - 1) \o SubSeq(c, i + 1, Len(c)) \o <<c[i]>>

\* a miss whose call returned: the result is stored, in the place of the
\* least recently used entry when the cache is full; a call that raised
\* stores nothing
CacheStore(c, key, value) ==
    IF IsError(value) THEN c
    ELSE (IF Len(c) >= maxsize THEN Tail(c) ELSE c) \o <<[key |-> key, p_node |-> value]>>

\* the wrapper lru_cache puts around _instrument_and_parse, called with
\* template.strings: what it returns, the cache and the builds after the call
lru_cache(c, b, parts) ==
    LET key == TemplateOf(parts).strings
        i == CacheIndex(c, key)
    IN  IF i > 0
        THEN [p_node |-> c[i].p_node, cache |-> CacheHit(c, i), builds |-> b]
        ELSE LET value == _instrument_and_parse(parts) IN
             [p_node |-> value, cache |-> CacheStore(c, key, value),
              builds |-> b (+) SetToBag({key})]

-----------------------------------------------------------------------------
(* processor.py: substitution of nodes *)

RECURSIVE processor_html(_)

\* _node_from_value that takes every string for a Safe Value
_node_from_value_AllSafe(value) ==
    CASE value.kind = "str" -> Text(value.s, TRUE)
      [] value.kind \in {"Text", "Element", "Fragment"} -> value
      [] value.kind = "template" -> processor_html(value.parts)
      [] OTHER -> Raise("TypeError")

\* _node_from_value(value); a str that is a Markup has __html__.  The cases
\* are tried in order: str(), Node(), Template(), then HasHTMLDunder(), a
\* class pattern, that is an isinstance check, on a Protocol that nodes.py
\* declares without runtime_checkable: the check raises TypeError for every
\* value that reaches it, so the cases written after it (False, Iterable(),
\* the wildcard) are never tried.
_node_from_value(value) ==
    CASE value.kind = "str" -> Text(value.s, value.safe)
      [] value.kind \in {"Text", "Element", "Fragment"} -> value
      [] value.kind = "template" -> processor_html(value.parts)
      [] OTHER -> Raise("TypeError")

RECURSIVE _substitute_node(_, _)

\* _substitute_and_flatten_children: the new children, or the error
_substitute_and_flatten_children(children, interpolations) ==
    LET substituted == [i \in 1..Len(children) |->
                          _substitute_node(children[i], interpolations)]
        e == FirstError(substituted)
    IN  IF IsError(e) THEN e
        ELSE [kind |-> "children",
              c |-> Concat([i \in 1..Len(substituted) |->
                              IF substituted[i].kind = "Fragment"
                              THEN substituted[i].children
                              ELSE <<substituted[i]>>])]

\* _substitute_node(p_node, interpolations)
_substitute_node(n, interpolations) ==
    CASE n.kind = "Text" /\ StartsWith(n.text, _PLACEHOLDER_PREFIX) ->
            LET value == InterpolationAt(n.text, interpolations) IN
            IF IsError(value) THEN value ELSE _node_from_value(value)
      [] n.kind = "Element" ->
            LET new_attrs == _substitute_attrs(n.attrs, interpolations) IN
            IF IsError(new_attrs) THEN new_attrs
            ELSE LET new_children ==
                         _substitute_and_flatten_children(n.children, interpolations)
                 IN  IF IsError(new_children) THEN new_children
                     ELSE NodeElement(n.tag, new_attrs.d, new_children.c)
      [] n.kind = "Fragment" ->
            LET new_children == _substitute_and_flatten_children(n.children, interpolations)
            IN  IF IsError(new_children) THEN new_children
                ELSE Fragment(new_children.c)
      [] OTHER -> n

\* processor.html(template), for the template of the parts
processor_html(parts) ==
    LET parsed == _instrument_and_parse(parts) IN
    IF IsError(parsed) THEN parsed
    ELSE _substitute_node(parsed, TemplateOf(parts).interpolations)

-----------------------------------------------------------------------------
(* The three groups of variables at rest: a specification that drives one  *)
(* part of the program leaves the others as they are here.                 *)

IdleOld ==
    /\ stack = ParserInit.stack
    /\ err = "none"
    /\ count = 0
    /\ callables = <<>>
    /\ bookkeep = <<>>
    /\ phase = "idle"
    /\ result = VNone
    /\ fed = <<>>

IdleAttr ==
    /\ a_pc = "idle"
    /\ a_parts = <<>>
    /\ a_old = VNone
    /\ a_new = VNone
    /\ a_out = <<>>
    /\ a_old_out = <<>>
    /\ a_calls = <<>>

IdleProc ==
    /\ salt = <<>>
    /\ tmpl = <<>>
    /\ pc = "idle"
    /\ chunks = <<>>
    /\ p_node = VNone
    /\ node = VNone
    /\ out = <<>>
    /\ cache = <<>>
    /\ builds = EmptyBag

IdleFn ==
    /\ fn_pc = "idle"
    /\ fn_args = <<>>
    /\ fn_result = VNone

-----------------------------------------------------------------------------
(* Spec: one call of html() of html.py, the template arriving part by part *)

\* the longest template, in parts
MaxParts == 5

DIV == <<"d", "i", "v">>
PTAG == <<"p">>
BR == <<"b", "r">>
KEY0 == <<"t", "s", "-", "b", "k", "-", "0">>

\* the literal text runs, the tag names and the interpolation values of
\* the templates checked
LitTexts == {<<"a">>, KEY0}
LitTags == {DIV, PTAG, BR}
SlotValues == {VStr(<<"V">>), VInt(7)}

\* the locals of html() and its parser, as the variables hold them
Hs ==
    [ps |-> [stack |-> stack, err |-> err], count |-> count,
     callables |-> callables, bookkeep |-> bookkeep]

\* the loop body of html() on one part; an exception ends the call
Feed(part) ==
    /\ phase = "feeding"
    /\ Len(fed) < MaxParts
    /\ LET hs == FeedPart(Hs, part) IN
       /\ stack' = hs.ps.stack
       /\ err' = hs.ps.err
       /\ count' = hs.count
       /\ callables' = hs.callables
       /\ bookkeep' = hs.bookkeep
       /\ phase' = IF hs.ps.err = "none" THEN "feeding" ELSE "done"
       /\ result' = IF hs.ps.err = "none" THEN result ELSE Raise(hs.ps.err)
    /\ fed' = Append(fed, part)
    /\ UNCHANGED <<varsAttr, varsProc, varsFn>>

\* literal text reaches handle_data
FeedData == \E s \in LitTexts : Feed(PData(s))

\* an interpolation in child content: its key reaches handle_data
FeedSlot == \E v \in SlotValues : Feed(PSlot(v))

\* a start tag reaches handle_starttag
FeedStart == \E t \in LitTags : Feed(PStart(LitTag(t), <<>>))

\* an end tag reaches handle_endtag
FeedEnd == \E t \in LitTags : Feed(PEnd(LitTag(t)))

\* the end of the template: parser.close(), get_root(), _element_from_tuple()
Finish ==
    /\ phase = "feeding"
    /\ phase' = "done"
    /\ result' = HtmlFinish(Hs).val
    /\ err' = IF IsError(result') THEN result'.exc ELSE err
    /\ UNCHANGED <<stack, count, callables, bookkeep, fed>>
    /\ UNCHANGED <<varsAttr, varsProc, varsFn>>

Init ==
    /\ stack = ParserInit.stack
    /\ err = "none"
    /\ count = 0
    /\ callables = <<>>
    /\ bookkeep = <<>>
    /\ phase = "feeding"
    /\ result = VNone
    /\ fed = <<>>
    /\ IdleFn
    /\ IdleAttr
    /\ IdleProc

Next == FeedData \/ FeedSlot \/ FeedStart \/ FeedEnd \/ Finish

Spec == Init /\ [][Next]_vars

-----------------------------------------------------------------------------
(* Claims about html() of html.py and its tree builder (Spec) *)

Last(q) == q[Len(q)]

FeedErrors == {"IndexError", "UnexpectedClosingTag", "MismatchedClosingTag"}

\* html() returned a tree
Returned == phase = "done" /\ ~IsError(result)

\* the text children of a resolved tree, in document order
RECURSIVE TextsOf(_)
TextsOf(n) ==
    IF n.kind = "str" THEN <<n.s>>
    ELSE Concat([i \in 1..Len(n.children) |-> TextsOf(n.children[i])])

\* the text the template puts in child content, in source order: a literal
\* run as written, an interpolation as the string of its value
RECURSIVE TextsWritten(_)
TextsWritten(parts) ==
    IF parts = <<>> THEN <<>>
    ELSE (CASE Head(parts).p = "data" -> <<Head(parts).s>>
            [] Head(parts).p = "slot" -> <<PyStr(Head(parts).v)>>
            [] OTHER -> <<>>)
         \o TextsWritten(Tail(parts))

\* C2: literal author content is never treated as a placeholder: the text
\* children of the resolved tree are the literal runs as written, and the
\* interpolation values only where the template has an interpolation.
C2_LiteralNeverPlaceholder ==
    Returned => TextsOf(result) = TextsWritten(fed)

\* C4: void normalization, at every position: a void start tag appends one
\* childless element of that tag to the current parent, and an explicit end
\* tag for it that follows immediately changes nothing and is no error.
C4_VoidNormalization ==
    [][/\ (/\ phase = "feeding"
           /\ Len(fed') = Len(fed) + 1
           /\ Last(fed').p = "start"
           /\ Last(fed').tag.s \in VOID_ELEMENTS)
          => (/\ err' = "none"
              /\ stack' = append_child(stack, Tuple(Last(fed').tag.s, <<>>, <<>>)))
       /\ (/\ phase = "feeding"
           /\ fed # <<>>
           /\ Last(fed).p = "start"
           /\ Last(fed).tag.s \in VOID_ELEMENTS
           /\ fed' = Append(fed, PEnd(Last(fed).tag)))
          => (err' = "none" /\ stack' = stack)]_vars

C6_UnclosedIffStackDeeper ==
    (phase = "done" /\ err \notin FeedErrors)
        => ((Len(stack) # 1) <=> (result = Raise("UnclosedTags")))

\* C6 witness: completion with two elements still open
C6_Witness ==
    /\ phase = "done"
    /\ Len(stack) = 3
    /\ result = Raise("UnclosedTags")

\* C7: on success the builder returns the sole child itself when the root's
\* children are exactly one element, and the root fragment with all its
\* children in every other case.
C7_SoleElementUnwrapped ==
    Returned =>
        LET root == stack[1] IN
        IF Len(root.children) = 1 /\ root.children[1].kind = "tuple"
        THEN /\ result.tag = root.children[1].tag
             /\ result = _element_from_tuple(root.children[1], bookkeep).val
        ELSE /\ result.tag = S0
             /\ Len(result.children) = Len(root.children)
             /\ result = _element_from_tuple(root, bookkeep).val

\* C7 witness: a root with several children, the first an element, returned
\* as the fragment
C7_Witness ==
    /\ Returned
    /\ Len(stack[1].children) >= 2
    /\ stack[1].children[1].kind = "tuple"
    /\ result.tag = S0

-----------------------------------------------------------------------------
(* SpecAttrs: one element <a ...></a> whose attributes are a_parts, compiled *)
(* by html() of html.py, then by html() of processor.py, then rendered       *)

\* the most attributes written in the tag
MaxAttrs == 3

ATAG == <<"a">>
ID == <<"i", "d">>
KEYK == <<"k">>

\* the random letters of the prefix, one choice per process
Salts == {<<"a", "b", "c", "d">>, <<"q", "r", "s", "t">>}

\* the attributes written: a literal, value interpolations on plain keys,
\* and spreads of mappings and of other values
AttrParts ==
    {LitAttr(ID, StrVal(<<"x">>)),
     ValueAttr(ID, VStr(<<"y">>)),
     ValueAttr(KEYK, VBool(TRUE)),
     ValueAttr(KEYK, VBool(FALSE)),
     ValueAttr(KEYK, VNone),
     ValueAttr(KEYK, VStr(<<"<", "\"">>)),
     SpreadAttr(VDict(<<[key |-> ID, val |-> VStr(<<"y">>)]>>)),
     SpreadAttr(VDict(<<[key |-> ID, val |-> VStr(<<"w">>)]>>)),
     SpreadAttr(VStr(S0)),
     SpreadAttr(VStr(<<"h">>)),
     SpreadAttr(VNone),
     SpreadAttr(VList(<<VTuple(<<VStr(ID), VStr(<<"y">>)>>)>>))}

AttrSeqs == UNION {[1..n -> AttrParts] : n \in 1..MaxAttrs}

\* the template <a ...></a>
TagParts == <<PStart(LitTag(ATAG), a_parts), PEnd(LitTag(ATAG))>>

AttrsInit ==
    /\ IdleOld
    /\ IdleFn
    /\ a_pc = "written"
    /\ a_parts \in AttrSeqs
    /\ a_old = VNone
    /\ a_new = VNone
    /\ a_out = <<>>
    /\ a_old_out = <<>>
    /\ a_calls = <<>>
    /\ salt \in Salts
    /\ tmpl = <<>>
    /\ pc = "idle"
    /\ chunks = <<>>
    /\ p_node = VNone
    /\ node = VNone
    /\ out = <<>>
    /\ cache = <<>>
    /\ builds = EmptyBag

\* html.py: html(template)
ResolveOld ==
    /\ a_pc = "written"
    /\ \E ran \in {HtmlRun(TagParts)} : a_old' = ran.val /\ a_calls' = ran.calls
    /\ a_pc' = "old"
    /\ UNCHANGED <<a_parts, a_new, a_out, a_old_out, varsOld, varsProc, varsFn>>

\* processor.py: html(template)
ResolveNew ==
    /\ a_pc = "old"
    /\ a_new' = processor_html(TagParts)
    /\ a_pc' = "resolved"
    /\ UNCHANGED <<a_parts, a_old, a_out, a_old_out, a_calls, varsOld, varsProc, varsFn>>

\* nodes.py: str(element)
RenderAttrs ==
    /\ a_pc = "resolved"
    /\ ~IsError(a_new)
    /\ a_out' = NodeStr(a_new)
    /\ a_pc' = "rendered"
    /\ UNCHANGED <<a_parts, a_old, a_new, a_old_out, a_calls, varsOld, varsProc, varsFn>>

\* element.py: element.render()
RenderOld ==
    /\ a_pc # "written"
    /\ ~IsError(a_old)
    /\ a_old_out = <<>>
    /\ a_old_out' = render(a_old, 0, 0)
    /\ UNCHANGED <<a_pc, a_parts, a_old, a_new, a_out, a_calls, varsOld, varsProc, varsFn>>

AttrsNext == ResolveOld \/ ResolveNew \/ RenderAttrs \/ RenderOld

SpecAttrs == AttrsInit /\ [][AttrsNext]_vars

-----------------------------------------------------------------------------
(* Properties of SpecAttrs *)

\* the keys of a map
KeysOf(d) == {d[i].key : i \in 1..Len(d)}

\* two maps with the same keys and the same value for each key
SameMap(d, e) ==
    /\ KeysOf(d) = KeysOf(e)
    /\ \A i \in 1..Len(d) : DictGet(e, d[i].key) = d[i].val

\* sub occurs in s
Contains(s, sub) ==
    \E i \in 0..(Len(s) - Len(sub)) : SubSeq(s, i + 1, i + Len(sub)) = sub

\* the assignments one written attribute makes under _attrs, in order
AssignedOld(a) ==
    CASE a.ak = "lit" -> <<[key |-> a.key, val |-> a.val]>>
      [] a.ak = "value" -> _process_attr_key(a.key, a.v).d
      [] a.ak = "spread" /\ a.v.kind = "str" -> <<[key |-> a.v.s, val |-> NoneVal]>>
      [] a.ak = "spread" /\ a.v.kind = "dict" ->
            Concat([i \in 1..Len(a.v.items) |->
                      _process_attr_key(a.v.items[i].key, a.v.items[i].val).d])

\* the assignments of the whole tag, in source order
AssignmentsOld(parts) == Concat([i \in 1..Len(parts) |-> AssignedOld(parts[i])])

\* the keys a written attribute names
KeysNamed(a) ==
    CASE a.ak \in {"lit", "value"} -> {a.key}
      [] a.ak = "spread" /\ a.v.kind = "dict" -> KeysOf(a.v.items)
      [] a.ak = "spread" /\ a.v.kind = "str" -> {a.v.s}
      [] a.ak = "spread" /\ a.v.kind \in {"list", "pytuple"} ->
            {PairOf(a.v.items[i]).key : i \in {j \in 1..Len(a.v.items) : IsPair(a.v.items[j])}}
      [] OTHER -> {}

\* the keys with handlers of their own
ReservedKeys ==
    {<<"c", "l", "a", "s", "s">>, <<"d", "a", "t", "a">>,
     <<"s", "t", "y", "l", "e">>, <<"a", "r", "i", "a">>}

\* part i is a value interpolation on a plain key that no other part names
PlainValueSlot(parts, i) ==
    /\ parts[i].ak = "value"
    /\ parts[i].key \notin ReservedKeys
    /\ \A j \in (1..Len(parts)) \ {i} : parts[i].key \notin KeysNamed(parts[j])

\* key stands in the rendering as a bare attribute
BareIn(s, key) ==
    \/ Contains(s, <<" ">> \o key \o <<" ">>)
    \/ Contains(s, <<" ">> \o key \o <<">">>)

\* C8: the attribute map html.py resolves for an element is the merge of the
\* assignments written in the tag, taken in source order, the last assignment
\* of each key giving the key's value.
C8_LastAssignmentWins ==
    (a_pc # "written" /\ ~IsError(a_old)) =>
        SameMap(a_old.attrs, DictUpdate(<<>>, AssignmentsOld(a_parts)))

\* C9: a tag with a spread interpolation whose value is not a mapping fails
\* to compile, under html.py and under processor.py.
C9_NonMappingSpreadFails ==
    (/\ a_pc \in {"resolved", "rendered"}
     /\ \E i \in 1..Len(a_parts) : a_parts[i].ak = "spread" /\ a_parts[i].v.kind # "dict")
        => IsError(a_old) /\ IsError(a_new)

\* C10: under processor.py a value interpolation on a plain key that nothing
\* else in the tag names gives, for True, the key with no value in the
\* resolved element and bare in the rendering; for False or None, no
\* attribute of that key in either; for a string, the key with exactly that
\* string in the element, attribute-escaped between quotes in the rendering.
C10_ValueSlotOnPlainKey ==
    (a_pc \in {"resolved", "rendered"} /\ ~IsError(a_new)) =>
        \A i \in 1..Len(a_parts) :
            PlainValueSlot(a_parts, i) =>
                LET key == a_parts[i].key
                    v == a_parts[i].v
                    rendered == a_pc = "rendered"
                IN  CASE IsTrue(v) ->
                            /\ DictHas(a_new.attrs, key)
                            /\ DictGet(a_new.attrs, key) = NoneVal
                            /\ rendered => /\ BareIn(a_out, key)
                                           /\ ~Contains(a_out, <<" ">> \o key \o <<"=">>)
                      [] v.kind = "none" \/ (v.kind = "bool" /\ ~v.b) ->
                            /\ ~DictHas(a_new.attrs, key)
                            /\ rendered => ~Contains(a_out, <<" ">> \o key)
                      [] v.kind = "str" ->
                            /\ DictHas(a_new.attrs, key)
                            /\ DictGet(a_new.attrs, key) = StrVal(v.s)
                            /\ rendered =>
                                 Contains(a_out, <<" ">> \o key \o <<"=", "\"">>
                                                   \o escape(v.s, TRUE) \o <<"\"">>)
                      [] OTHER -> TRUE

\* a rendered element with a True, a None and a string value interpolation
C10_Witness ==
    /\ a_pc = "rendered"
    /\ \E i \in 1..Len(a_parts) : PlainValueSlot(a_parts, i) /\ IsTrue(a_parts[i].v)
    /\ DictHas(a_new.attrs, KEYK)
    /\ BareIn(a_out, KEYK)

\* how C11 has an attribute map written: a None value as the bare key,
\* every other value attribute-escaped between quotes, in insertion order
BareOrQuoted(attrs) ==
    Concat([i \in 1..Len(attrs) |->
              IF attrs[i].val.none THEN <<" ">> \o attrs[i].key
              ELSE <<" ">> \o attrs[i].key \o <<"=", "\"">>
                     \o escape(attrs[i].val.s, TRUE) \o <<"\"">>])

\* C11: Element.render of element.py writes the element html() of html.py
\* returns with each attribute whose value is None as the bare key and every
\* other attribute as key="attribute-escaped value", in the order of the map.
C11_NoneRendersBare ==
    a_old_out # <<>> =>
        a_old_out = <<"<">> \o a_old.tag \o BareOrQuoted(a_old.attrs)
                      \o <<">", "<", "/">> \o a_old.tag \o <<">">>

-----------------------------------------------------------------------------
(* SpecProc: one call of html() of processor.py and the rendering of its   *)
(* result, step by step                                                     *)

\* the longest template, in parts
MaxProcParts == 4

SCRIPT == <<"s", "c", "r", "i", "p", "t">>
MARKUP == <<"<", "&", ">">>

\* the parts the templates are made of: literal text, string interpolations
\* plain, marked :safe and wrapped as Markup, elements with escaped and with
\* raw content, and a start tag with an interpolated attribute value
ProcParts ==
    {PData(<<"a">>),
     PSlot(VStr(MARKUP)),
     PSlotSafe(VStr(MARKUP)),
     PSlot(VMarkup(<<"<", "b", ">">>)),
     PStart(LitTag(DIV), <<>>),
     PStart(LitTag(DIV), <<ValueAttr(ID, VStr(<<"y">>))>>),
     PEnd(LitTag(DIV)),
     PStart(LitTag(SCRIPT), <<>>),
     PEnd(LitTag(SCRIPT))}

ProcTemplates == UNION {[1..n -> ProcParts] : n \in 1..MaxProcParts}

ProcInit ==
    /\ IdleOld
    /\ IdleAttr
    /\ IdleFn
    /\ salt \in Salts
    /\ tmpl \in ProcTemplates
    /\ pc = "called"
    /\ chunks = <<>>
    /\ p_node = VNone
    /\ node = VNone
    /\ out = <<>>
    /\ cache = <<>>
    /\ builds = EmptyBag

\* _instrument_and_parse: instrumented = _instrument(strings)
Instrument ==
    /\ pc = "called"
    /\ chunks' = _instrument(TemplateOf(tmpl).strings)
    /\ pc' = "instrumented"
    /\ UNCHANGED <<salt, tmpl, p_node, node, out, cache, builds, varsOld, varsAttr, varsFn>>

\* _instrument_and_parse: parse_html_iter(instrumented)
Parse ==
    /\ pc = "instrumented"
    /\ p_node' = parse_html_iter(Tokens(tmpl, chunks, 0))
    /\ cache' = CacheStore(cache, TemplateOf(tmpl).strings, p_node')
    /\ builds' = builds (+) SetToBag({TemplateOf(tmpl).strings})
    /\ pc' = "parsed"
    /\ UNCHANGED <<salt, tmpl, chunks, node, out, varsOld, varsAttr, varsFn>>

\* html: _substitute_node(p_node, template.interpolations)
Substitute ==
    /\ pc = "parsed"
    /\ ~IsError(p_node)
    /\ node' = _substitute_node(p_node, TemplateOf(tmpl).interpolations)
    /\ pc' = "resolved"
    /\ UNCHANGED <<salt, tmpl, chunks, p_node, out, cache, builds, varsOld, varsAttr, varsFn>>

\* str(node)
Render ==
    /\ pc = "resolved"
    /\ ~IsError(node)
    /\ out' = NodeStr(node)
    /\ pc' = "rendered"
    /\ UNCHANGED <<salt, tmpl, chunks, p_node, node, cache, builds, varsOld, varsAttr, varsFn>>

ProcNext == Instrument \/ Parse \/ Substitute \/ Render

SpecProc == ProcInit /\ [][ProcNext]_vars

-----------------------------------------------------------------------------
(* Properties of SpecProc *)

\* the text an interpolation in child content is to stand for in the output:
\* escaped, unless it is marked :safe, is a Markup, or stands in an element
\* with raw content
SlotText(part, raw) ==
    IF part.v.kind = "str"
    THEN IF part.fmt = "safe" \/ part.v.safe \/ raw
         THEN part.v.s
         ELSE escape(part.v.s, FALSE)
    ELSE PyStr(part.v)

\* the attributes of a start tag as they are to stand in the output
AttrText(specs) ==
    Concat([i \in 1..Len(specs) |->
              IF specs[i].ak = "lit" /\ specs[i].val.none THEN <<" ">> \o specs[i].key
              ELSE <<" ">> \o specs[i].key \o <<"=", "\"">>
                     \o escape(IF specs[i].ak = "lit" THEN specs[i].val.s ELSE specs[i].v.s,
                               TRUE)
                     \o <<"\"">>])

\* the template as written, each interpolation replaced by the text it is
\* to stand for; open is the tags open so far
RECURSIVE SourceRendering(_, _)
SourceRendering(parts, open) ==
    IF parts = <<>> THEN <<>>
    ELSE LET part == Head(parts)
             rest == Tail(parts)
             raw == open # <<>> /\ Last(open) \in CONTENT_ELEMENTS
         IN
         CASE part.p = "data" ->
                (IF raw THEN part.s ELSE escape(part.s, FALSE)) \o SourceRendering(rest, open)
           [] part.p = "slot" -> SlotText(part, raw) \o SourceRendering(rest, open)
           [] part.p = "start" ->
                <<"<">> \o part.tag.s \o AttrText(part.attrs) \o <<">">>
                  \o SourceRendering(rest, Append(open, part.tag.s))
           [] part.p = "end" ->
                <<"<", "/">> \o part.tag.s \o <<">">>
                  \o SourceRendering(rest, SubSeq(open, 1, Len(open) - 1))

\* part i of the template is a string interpolation that is no Safe Value,
\* in child content
UnsafeStringSlot(part) ==
    part.p = "slot" /\ part.v.kind = "str" /\ part.fmt = "" /\ ~part.v.safe

\* the same string as a Safe Value
SafeStringSlot(part) ==
    part.p = "slot" /\ part.v.kind = "str" /\ (part.fmt = "safe" \/ part.v.safe)

\* C1: the rendering of a compiled template is the template as written with
\* every string interpolation in child content that is no Safe Value replaced
\* by its text-escaped form ('<', '>' and '&' as entities) where its parent
\* is no raw-content element, and every Safe Value replaced by itself.
C1_StringChildEscaped ==
    pc = "rendered" => out = SourceRendering(tmpl, <<>>)

\* a rendered <div> holding the same string plain and as a Safe Value
C1_Witness ==
    /\ pc = "rendered"
    /\ Len(tmpl) = 4
    /\ tmpl[1] = PStart(LitTag(DIV), <<>>)
    /\ UnsafeStringSlot(tmpl[2])
    /\ SafeStringSlot(tmpl[3])
    /\ tmpl[2].v.s = tmpl[3].v.s
    /\ out = <<"<", "d", "i", "v", ">">> \o escape(MARKUP, FALSE) \o MARKUP
               \o <<"<", "/", "d", "i", "v", ">">>

\* the nodes of a tree in document order, children left out
RECURSIVE Preorder(_)
Preorder(n) ==
    CASE n.kind = "Text" -> <<n>>
      [] n.kind = "Fragment" ->
            Concat([i \in 1..Len(n.children) |-> Preorder(n.children[i])])
      [] n.kind = "Element" ->
            <<[n EXCEPT !.children = <<>>]>>
              \o Concat([i \in 1..Len(n.children) |-> Preorder(n.children[i])])

\* what the attributes written in a start tag resolve to, each
\* interpolation with the value written in its own place
OwnAttrs(specs) ==
    DictUpdate(<<>>,
        Concat([i \in 1..Len(specs) |->
                  CASE specs[i].ak = "lit" -> <<[key |-> specs[i].key, val |-> specs[i].val]>>
                    [] specs[i].ak = "value" -> _substitute_attr(specs[i].key, specs[i].v).d
                    [] specs[i].ak = "spread" -> _substitute_spread_attrs(specs[i].v).d]))

\* the nodes a template is to resolve to, in document order, each
\* interpolation with the value written in its own place
OwnNodes(parts) ==
    Concat([i \in 1..Len(parts) |->
              CASE parts[i].p = "data" -> <<Text(parts[i].s, FALSE)>>
                [] parts[i].p = "slot" ->
                      Preorder(_node_from_value(
                          format_interpolation(Interpolation(parts[i].v, parts[i].fmt))))
                [] parts[i].p = "start" ->
                      <<NodeElement(parts[i].tag.s, OwnAttrs(parts[i].attrs), <<>>)>>
                [] parts[i].p = "end" -> <<>>])

-----------------------------------------------------------------------------
(* SpecClsx: one call of clsx of html.py on the arguments fn_args *)

\* the most arguments of a call
MaxArgs == 2

NAME_A == <<"a">>
NAME_B == <<" ", "b", " ">>
BLANK == <<" ", " ">>

\* arguments that are not nested
ClsxAtoms ==
    {VStr(NAME_A), VStr(NAME_B), VStr(BLANK), VStr(S0), VNone, VBool(TRUE), VBool(FALSE),
     VInt(7),
     VDict(<<[key |-> <<"c">>, val |-> VBool(TRUE)], [key |-> <<"d">>, val |-> VBool(FALSE)]>>),
     VDict(<<[key |-> <<"e">>, val |-> VInt(0)], [key |-> <<"f", " ">>, val |-> VStr(<<"y">>)]>>)}

\* what the lists and tuples hold at their innermost
ClsxInner == {VStr(NAME_B), VInt(7), VNone, VBool(TRUE),
              VDict(<<[key |-> <<"c">>, val |-> VBool(TRUE)],
                      [key |-> <<"d">>, val |-> VNone]>>)}

\* lists and tuples nested one, two and three deep
ClsxNested1 == {VList(<<x>>) : x \in ClsxInner} \cup {VTuple(<<VStr(NAME_A), x>>) : x \in ClsxInner}
ClsxNested2 == {VList(<<VStr(BLANK), x>>) : x \in ClsxNested1}
ClsxNested3 == {VTuple(<<x>>) : x \in ClsxNested2}

ClsxValues == ClsxAtoms \cup ClsxNested1 \cup ClsxNested2 \cup ClsxNested3

ClsxInit ==
    /\ IdleOld
    /\ IdleAttr
    /\ IdleProc
    /\ fn_pc = "called"
    /\ fn_args \in UNION {[1..n -> ClsxValues] : n \in 0..MaxArgs}
    /\ fn_result = VNone

\* clsx(*args)
ClsxCall ==
    /\ fn_pc = "called"
    /\ fn_result' = clsx(fn_args)
    /\ fn_pc' = "returned"
    /\ UNCHANGED <<fn_args, varsOld, varsAttr, varsProc>>

SpecClsx == ClsxInit /\ [][ClsxCall]_vars

-----------------------------------------------------------------------------
(* Properties of SpecClsx *)

\* an argument of a type clsx does not take, at any depth
RECURSIVE HasInvalid(_)
HasInvalid(arg) ==
    CASE arg.kind \in {"str", "dict", "none", "bool"} -> FALSE
      [] arg.kind \in {"list", "pytuple"} ->
            \E i \in 1..Len(arg.items) : HasInvalid(arg.items[i])
      [] OTHER -> TRUE

\* the names of an argument, trimmed, in order, lists and tuples flattened
RECURSIVE FlatNames(_)
FlatNames(arg) ==
    CASE arg.kind = "str" -> <<Strip(arg.s)>>
      [] arg.kind \in {"list", "pytuple"} ->
            Concat([i \in 1..Len(arg.items) |-> FlatNames(arg.items[i])])
      [] arg.kind = "dict" ->
            Concat([i \in 1..Len(arg.items) |->
                      IF Truthy(arg.items[i].val) THEN <<Strip(arg.items[i].key)>> ELSE <<>>])
      [] OTHER -> <<>>

\* C12: clsx returns the names of its arguments in argument order joined by
\* single spaces (strings trimmed, lists and tuples flattened at any depth,
\* a mapping key kept iff its value is truthy, None and booleans skipped,
\* empty names left out), and raises ValueError iff an argument of any other
\* type occurs at any depth.
C12_ClsxFlattens ==
    fn_pc = "returned" =>
        IF \E i \in 1..Len(fn_args) : HasInvalid(fn_args[i])
        THEN fn_result = Raise("ValueError")
        ELSE fn_result =
                VStr(Join(<<" ">>,
                          SelectSeq(Concat([i \in 1..Len(fn_args) |-> FlatNames(fn_args[i])]),
                                    LAMBDA c : c # <<>>)))

\* a call with a string to trim and a tuple nested three deep
C12_Witness ==
    /\ fn_pc = "returned"
    /\ Len(fn_args) = 2
    /\ fn_args[1] = VStr(NAME_B)
    /\ fn_args[2] = VTuple(<<VList(<<VStr(BLANK), VTuple(<<VStr(NAME_A), VBool(TRUE)>>)>>)>>)
    /\ fn_result = VStr(<<"b", " ", "a">>)

-----------------------------------------------------------------------------
(* SpecReserved: one call of _substitute_attr of processor.py for a key     *)
(* with a handler of its own: fn_args is the key and the interpolated value *)

\* the most entries of a mapping value
MaxItems == 2

DATA == <<"d", "a", "t", "a">>
ARIA == <<"a", "r", "i", "a">>
STYLE == <<"s", "t", "y", "l", "e">>

SubKeys == {<<"a">>, <<"b">>, <<"c">>}
SubValues == {VBool(TRUE), VBool(FALSE), VNone, VStr(<<"x">>), VInt(7), VInt(0)}

\* the dicts of up to n entries
RECURSIVE Dicts(_)
Dicts(n) ==
    IF n = 0 THEN {<<>>}
    ELSE Dicts(n - 1) \cup
         {Append(d, [key |-> k, val |-> v]) :
            d \in {e \in Dicts(n - 1) : Len(e) = n - 1}, k \in SubKeys, v \in SubValues}

\* the values that are no mapping
OtherValues ==
    {VStr(S0), VStr(<<"x", ":", "y">>), VNone, VBool(TRUE), VInt(7), VList(<<>>),
     VList(<<VTuple(<<VStr(<<"a">>), VStr(<<"x">>)>>)>>)}

ReservedValues ==
    {VDict(d) : d \in {e \in Dicts(MaxItems) :
                         \A i, j \in 1..Len(e) : e[i].key = e[j].key => i = j}}
      \cup OtherValues

ReservedInit ==
    /\ IdleOld
    /\ IdleAttr
    /\ IdleProc
    /\ fn_pc = "called"
    /\ fn_args \in [key : {DATA, ARIA, STYLE}, value : ReservedValues]
    /\ fn_result = VNone

\* _substitute_attr(key, value)
ReservedCall ==
    /\ fn_pc = "called"
    /\ fn_result' = _substitute_attr(fn_args.key, fn_args.value)
    /\ fn_pc' = "returned"
    /\ UNCHANGED <<fn_args, varsOld, varsAttr, varsProc>>

SpecReserved == ReservedInit /\ [][ReservedCall]_vars

-----------------------------------------------------------------------------
(* Properties of SpecReserved *)

IsFalseOrNone(v) == v.kind = "none" \/ (v.kind = "bool" /\ ~v.b)

\* data-<subkey>: bare for True, left out for False and None, the
\* stringified subvalue otherwise
DataEntries(items) ==
    Concat([i \in 1..Len(items) |->
              LET k == <<"d", "a", "t", "a", "-">> \o items[i].key IN
              IF IsTrue(items[i].val) THEN <<[key |-> k, val |-> NoneVal]>>
              ELSE IF IsFalseOrNone(items[i].val) THEN <<>>
              ELSE <<[key |-> k, val |-> StrVal(PyStr(items[i].val))]>>])

\* C13: for the key data a value that is no mapping fails, and a mapping
\* yields per entry data-<subkey>, bare for a true subvalue, left out for
\* false or null, with the stringified subvalue for every other subvalue.
C13_DataAttrs ==
    (fn_pc = "returned" /\ fn_args.key = DATA) =>
        IF fn_args.value.kind = "dict"
        THEN fn_result = AttrsOk(DataEntries(fn_args.value.items))
        ELSE IsError(fn_result)

\* aria-<subkey>: "true" for True, "false" for False, the stringified
\* subvalue otherwise; a None subvalue yields "false" if nullIsFalse, and
\* nothing if not
AriaEntries(items, nullIsFalse) ==
    Concat([i \in 1..Len(items) |->
              LET k == <<"a", "r", "i", "a", "-">> \o items[i].key IN
              IF IsTrue(items[i].val) THEN <<[key |-> k, val |-> StrVal(<<"t", "r", "u", "e">>)]>>
              ELSE IF items[i].val.kind = "bool" \/ (items[i].val.kind = "none" /\ nullIsFalse)
              THEN <<[key |-> k, val |-> StrVal(<<"f", "a", "l", "s", "e">>)]>>
              ELSE IF items[i].val.kind = "none" THEN <<>>
              ELSE <<[key |-> k, val |-> StrVal(PyStr(items[i].val))]>>])

C15_StyleAttr ==
    (fn_pc = "returned" /\ fn_args.key = STYLE) =>
        CASE fn_args.value.kind = "dict" ->
                fn_result = AttrsOk(<<[key |-> STYLE,
                    val |-> StrVal(Join(<<";", " ">>,
                              [i \in 1..Len(fn_args.value.items) |->
                                 fn_args.value.items[i].key \o <<":", " ">>
                                   \o PyStr(fn_args.value.items[i].val)]))]>>)
          [] fn_args.value.kind = "str" ->
                fn_result = AttrsOk(<<[key |-> STYLE, val |-> StrVal(fn_args.value.s)]>>)
          [] OTHER -> IsError(fn_result)

-----------------------------------------------------------------------------
(* SpecKids: html(t"<main>{v1}...{vn}</main>") in html.py and in           *)
(* processor.py, for child values that are False, strings, lists, nested  *)
(* lists and templates with one root and with two.                         *)

MaxKids == 2

MAIN == <<"m", "a", "i", "n">>
LI == <<"l", "i">>

\* the template <li>s</li>
ItemTemplate(s) == <<PStart(LitTag(LI), <<>>), PData(s), PEnd(LitTag(LI))>>

\* the template <li>x</li><li>y</li>
TwoRoots == ItemTemplate(<<"x">>) \o ItemTemplate(<<"y">>)

KidValues ==
    {VBool(FALSE),
     VStr(<<"b">>),
     VList(<<VStr(<<"b">>), VStr(<<"c">>)>>),
     VList(<<VStr(<<"b">>), VList(<<VStr(<<"c">>)>>)>>),
     VTuple(<<VStr(<<"b">>)>>),
     VTemplate(ItemTemplate(<<"x">>)),
     VTemplate(TwoRoots),
     VList(<<VTemplate(ItemTemplate(<<"x">>)), VTemplate(TwoRoots)>>)}

KidSeqs == UNION {[1..n -> {PSlot(v) : v \in KidValues}] : n \in 1..MaxKids}

\* the template <main>{...}{...}</main> of the child slots
MainParts(slots) == <<PStart(LitTag(MAIN), <<>>)>> \o slots \o <<PEnd(LitTag(MAIN))>>

KidsInit ==
    /\ IdleOld
    /\ IdleFn
    /\ a_pc = "written"
    /\ a_parts \in KidSeqs
    /\ a_old = VNone
    /\ a_new = VNone
    /\ a_out = <<>>
    /\ a_old_out = <<>>
    /\ a_calls = <<>>
    /\ salt \in Salts
    /\ tmpl = <<>>
    /\ pc = "idle"
    /\ chunks = <<>>
    /\ p_node = VNone
    /\ node = VNone
    /\ out = <<>>
    /\ cache = <<>>
    /\ builds = EmptyBag

\* html.py: html(template)
KidsOld ==
    /\ a_pc = "written"
    /\ \E ran \in {HtmlRun(MainParts(a_parts))} : a_old' = ran.val /\ a_calls' = ran.calls
    /\ a_pc' = "old"
    /\ UNCHANGED <<a_parts, a_new, a_out, a_old_out, varsOld, varsProc, varsFn>>

\* processor.py: html(template)
KidsNew ==
    /\ a_pc = "old"
    /\ a_new' = processor_html(MainParts(a_parts))
    /\ a_pc' = "resolved"
    /\ UNCHANGED <<a_parts, a_old, a_out, a_old_out, a_calls, varsOld, varsProc, varsFn>>

KidsNext == KidsOld \/ KidsNew \/ RenderAttrs \/ RenderOld

SpecKids == KidsInit /\ [][KidsNext]_vars

\* a False among the child slots
IsFalseSlot(part) == part.p = "slot" /\ part.v = VBool(FALSE)
HasFalseSlot == \E i \in 1..Len(a_parts) : IsFalseSlot(a_parts[i])

\* the template written without its False slots
WithoutFalse == SelectSeq(a_parts, LAMBDA part : ~IsFalseSlot(part))

\* C16: a child slot whose value is False adds no node to the parent's
\* children: in either pipeline the element is the one the template gives
\* with the slot left out, and so is its rendering.
C16_FalseContributesNothing ==
    HasFalseSlot =>
        /\ a_pc # "written" => a_old = Html(MainParts(WithoutFalse))
        /\ a_pc \in {"resolved", "rendered"} =>
               a_new = processor_html(MainParts(WithoutFalse))
        /\ a_old_out # <<>> =>
               a_old_out = render(Html(MainParts(WithoutFalse)), 0, 0)

\* an iterable or a template among the child slots, and no False
IterableKids ==
    /\ \E i \in 1..Len(a_parts) : a_parts[i].v.kind \in {"list", "pytuple", "template"}
    /\ ~HasFalseSlot

\* a Fragment: nodes.Fragment, and in html.py the element without a tag that
\* holds the roots of a template
IsFragment(n) == n.kind = "Fragment" \/ (n.kind = "Element" /\ n.tag = S0)

RECURSIVE HoldsFragment(_)
HoldsFragment(n) ==
    \/ IsFragment(n)
    \/ n.kind = "Element" /\ \E i \in 1..Len(n.children) : HoldsFragment(n.children[i])

NoFragmentBelow(n) == \A i \in 1..Len(n.children) : ~HoldsFragment(n.children[i])

\* the children a value stands for, items in iteration order, Fragments
\* spliced: in html.py (old) and in processor.py
RECURSIVE Spliced(_, _)
Spliced(v, old) ==
    CASE v.kind = "str" -> IF old THEN <<Str(v.s)>> ELSE <<Text(v.s, v.safe)>>
      [] v.kind \in {"list", "pytuple"} ->
            Concat([i \in 1..Len(v.items) |-> Spliced(v.items[i], old)])
      [] v.kind = "template" ->
            LET n == IF old THEN Html(v.parts) ELSE processor_html(v.parts) IN
            IF IsFragment(n) THEN n.children ELSE <<n>>

SplicedKids(old) == Concat([i \in 1..Len(a_parts) |-> Spliced(a_parts[i].v, old)])

\* C17: the items of an iterable child value, converted by the same rule at
\* every depth, are the parent's children in iteration order, and no
\* Fragment is left below the top of the result.
C17_IterablesSpliced ==
    IterableKids =>
        /\ a_pc # "written" =>
               /\ ~IsError(a_old)
               /\ a_old.children = SplicedKids(TRUE)
               /\ NoFragmentBelow(a_old)
        /\ a_pc \in {"resolved", "rendered"} =>
               /\ ~IsError(a_new)
               /\ a_new.children = SplicedKids(FALSE)
               /\ NoFragmentBelow(a_new)

-----------------------------------------------------------------------------
(* SpecTags: html() of html.py on templates whose tag names are            *)
(* interpolations, <{open} ...>...</{close}>: a string, a component that   *)
(* returns a tag name, one that returns a template with two roots and one  *)
(* that returns an Element made of its arguments.  Such an element is      *)
(* written alone, inside <tr>a...b</tr>, or twice inside <tr>...</tr>, and *)
(* its content holds elements of the same kind down to MaxNest.            *)

MaxNest == 1

TR == <<"t", "r">>
TD == <<"t", "d">>
SPAN == <<"s", "p", "a", "n">>

\* def Comp(*children, **attrs): return "span"
Comp == VCallable("Comp", VStr(SPAN))

\* def Columns(*children, **attrs): return t"<td>1</td><td>2</td>"
ColumnsParts ==
    <<PStart(LitTag(TD), <<>>), PData(<<"1">>), PEnd(LitTag(TD)),
      PStart(LitTag(TD), <<>>), PData(<<"2">>), PEnd(LitTag(TD))>>
Columns == VCallable("Columns", VTemplate(ColumnsParts))

\* def Elt(*children, **attrs): return Element("b", attrs=attrs, children=children)
Elt == VCallable("Elt", Echo(<<"b">>))

TagValues == {VStr(DIV), Comp, Columns, Elt}

\* what the closing tag names: the same value, or another
CloseValues(open) == {open, Comp}

TagAttrs == {<<>>, <<LitAttr(ID, StrVal(<<"x">>)), ValueAttr(KEYK, VStr(<<"v">>))>>}

BaseKids == {<<>>, <<PData(<<"x">>), PSlot(VStr(<<"y">>))>>}

\* <{open} attrs>kids</{close}>, kept whole, and the parts it is written as
PComp(open, close, attrs, kids) ==
    [p |-> "comp", open |-> open, close |-> close, attrs |-> attrs, kids |-> kids]
CompParts(c) == <<PStart(SlotTag(c.open), c.attrs)>> \o c.kids \o <<PEnd(SlotTag(c.close))>>

RECURSIVE Comps(_)
Comps(d) ==
    LET kids == BaseKids \union (IF d = 0 THEN {} ELSE {CompParts(c) : c \in Comps(d - 1)})
    IN  UNION {{PComp(open, close, attrs, k) :
                   close \in CloseValues(open), attrs \in TagAttrs, k \in kids} :
               open \in TagValues}

TagTemplates ==
    {<<c>> : c \in Comps(MaxNest)}
    \union {<<PStart(LitTag(TR), <<>>), PData(<<"a">>), c, PData(<<"b">>), PEnd(LitTag(TR))>> :
               c \in Comps(MaxNest)}
    \union {<<PStart(LitTag(TR), <<>>), c1, c2, PEnd(LitTag(TR))>> :
               c1 \in Comps(0), c2 \in Comps(0)}

\* the template as html() iterates over it
Expand(part) == IF part.p = "comp" THEN CompParts(part) ELSE <<part>>
Written(parts) == Concat([i \in 1..Len(parts) |-> Expand(parts[i])])

TagsInit ==
    /\ IdleOld
    /\ IdleProc
    /\ IdleFn
    /\ a_pc = "written"
    /\ a_parts \in TagTemplates
    /\ a_old = VNone
    /\ a_new = VNone
    /\ a_out = <<>>
    /\ a_old_out = <<>>
    /\ a_calls = <<>>

\* html.py: html(template)
TagsOld ==
    /\ a_pc = "written"
    /\ \E ran \in {HtmlRun(Written(a_parts))} : a_old' = ran.val /\ a_calls' = ran.calls
    /\ a_pc' = "old"
    /\ UNCHANGED <<a_parts, a_new, a_out, a_old_out, varsOld, varsProc, varsFn>>

TagsNext == TagsOld \/ RenderOld

SpecTags == TagsInit /\ [][TagsNext]_vars

\* the elements with an interpolated tag name written at the top of the
\* template or directly inside its <tr>
TopComps == {i \in 1..Len(a_parts) : a_parts[i].p = "comp"}

\* the same element written with the literal tag name
LiteralParts(c, tag) == <<PStart(LitTag(tag), c.attrs)>> \o c.kids \o <<PEnd(LitTag(tag))>>

\* one string in the opening slot and in the closing slot
StringTag(c) == c.open.kind = "str" /\ c.close = c.open

\* the template with every such element written with its literal name
WithLiteralTags ==
    Concat([i \in 1..Len(a_parts) |->
              IF a_parts[i].p = "comp" /\ StringTag(a_parts[i])
              THEN LiteralParts(a_parts[i], a_parts[i].open.s)
              ELSE Expand(a_parts[i])])

\* C18: a string interpolated as the name of an opening tag and of its
\* closing tag gives the element the literal name gives: where the template
\* written with the literal name compiles, the one with the interpolated
\* name compiles to the same tree.
C18_DynamicTag ==
    (/\ a_pc = "old"
     /\ \E i \in TopComps : StringTag(a_parts[i])
     /\ ~IsError(Html(WithLiteralTags)))
        => a_old = Html(WithLiteralTags)

\* one callable in the opening slot and in the closing slot
ComponentTag(c) == c.open.kind = "callable" /\ c.close = c.open

\* the attributes and children of the element, resolved: those of the same
\* element under a literal name
Plain(c) == Html(LiteralParts(c, DIV))

\* the invocations made for the element: those its children make, then its
\* own, once, with the resolved children and attributes
CompCalls(c) ==
    HtmlCalls(LiteralParts(c, DIV))
        \o <<[f |-> c.open.name, args |-> Plain(c).children, kwargs |-> Plain(c).attrs]>>

\* what the element becomes: what the callable returns for those arguments
Replaced(c) ==
    LET res == Invoke(c.open, Plain(c).children, Plain(c).attrs) IN
    CASE res.kind = "str" -> Element(res.s, Plain(c).attrs, Plain(c).children)
      [] res.kind = "template" -> Html(res.parts)
      [] OTHER -> res

ExpectedChild(part) ==
    CASE part.p = "comp" -> Replaced(part)
      [] part.p = "data" -> Str(part.s)

ExpectedTree ==
    IF Len(a_parts) = 1 THEN Replaced(a_parts[1])
    ELSE Element(TR, <<>>, [i \in 1..(Len(a_parts) - 2) |-> ExpectedChild(a_parts[i + 1])])

\* every element with an interpolated name names one callable twice, and
\* its attributes and children resolve
Components ==
    /\ a_pc = "old"
    /\ \A i \in TopComps : ComponentTag(a_parts[i]) /\ ~IsError(Plain(a_parts[i]))

\* C19: the opening and closing slots that name a callable form one
\* element; the callable is invoked once for it, after the invocations its
\* children make, with the resolved children as positional and the resolved
\* attributes as named arguments, and the element is what it returns.
C19_ComponentInvokedOnce ==
    Components =>
        /\ a_calls = Concat([i \in 1..Len(a_parts) |->
                               IF i \in TopComps THEN CompCalls(a_parts[i]) ELSE <<>>])
        /\ a_old = ExpectedTree

\* a component with attributes and a child component: two invocations
C19_Witness ==
    /\ Components
    /\ Len(a_parts) = 1
    /\ a_parts[1].open = Elt
    /\ Len(a_parts[1].attrs) = 2
    /\ Len(a_calls) = 2
    /\ a_calls[1].f = "Comp"
    /\ a_calls[2].args # <<>>
    /\ ~IsError(a_old)

\* <{Columns}></{Columns}>
IsColumns(part) ==
    part.p = "comp" /\ part.open = Columns /\ part.close = Columns
        /\ part.attrs = <<>> /\ part.kids = <<>>

\* the template with the markup Columns returns written in its place
WithColumnsInline ==
    Concat([i \in 1..Len(a_parts) |->
              IF IsColumns(a_parts[i]) THEN ColumnsParts ELSE Expand(a_parts[i])])

\* C20: a component that returns a template with several roots leaves those
\* roots, in order, among the children of the parent of its tag, with no
\* element or fragment around them: the tree is the one the template gives
\* with the returned markup written in place of the tag.
C20_FanOut ==
    (/\ a_pc = "old"
     /\ Len(a_parts) > 1
     /\ \E i \in TopComps : IsColumns(a_parts[i])
     /\ ~IsError(Html(WithColumnsInline)))
        => a_old = Html(WithColumnsInline)

-----------------------------------------------------------------------------
(* SpecCache: calls of html() of processor.py one after another in one     *)
(* process, through the lru_cache of _instrument_and_parse                 *)

\* the number of templates of literal text alone, each with its own text
MaxFresh == 129

\* <p id={v}>{w}</p>
Watched(v, w) ==
    <<PStart(LitTag(PTAG), <<ValueAttr(ID, VStr(v))>>), PSlot(VStr(w)), PEnd(LitTag(PTAG))>>

\* the values the watched template is called with
WatchedCalls == {Watched(<<"b">>, <<"c">>), Watched(<<"c">>, <<"b">>)}

WatchedKey == TemplateOf(Watched(<<"b">>, <<"c">>)).strings

\* the k-th template of literal text: the digits of k
Fresh(k) == <<PData(StrNat(k))>>

\* how many of the templates of literal text were compiled
Seen == Cardinality({k \in 1..MaxFresh : TemplateOf(Fresh(k)).strings \in DOMAIN builds})

\* the templates the next call can come with
CacheTemplates ==
    WatchedCalls \cup (IF Seen < MaxFresh THEN {Fresh(Seen + 1)} ELSE {})

CacheInit ==
    /\ IdleOld
    /\ IdleAttr
    /\ IdleFn
    /\ salt \in Salts
    /\ tmpl = <<>>
    /\ pc = "idle"
    /\ chunks = <<>>
    /\ p_node = VNone
    /\ node = VNone
    /\ out = <<>>
    /\ cache = <<>>
    /\ builds = EmptyBag

\* html(template): p_node = _instrument_and_parse(template.strings), through
\* the cache; the call before has returned and the caller has rendered and
\* kept its result
Compile ==
    /\ pc \in {"idle", "rendered"}
    /\ \E parts \in CacheTemplates :
         \E r \in {lru_cache(cache, builds, parts)} :
            /\ tmpl' = parts
            /\ p_node' = r.p_node
            /\ cache' = r.cache
            /\ builds' = r.builds
    /\ pc' = "parsed"
    /\ chunks' = <<>>
    /\ node' = VNone
    /\ UNCHANGED <<salt, out, varsOld, varsAttr, varsFn>>

CacheNext == Compile \/ Substitute \/ Render

SpecCache == CacheInit /\ [][CacheNext]_vars

\* C21: the tree builder runs at most once for each distinct sequence of
\* literal segments, however many other templates were compiled in between
C21_BuiltAtMostOnce ==
    \A key \in DOMAIN builds : builds[key] <= 1

\* the placeholder tree of the watched template
WatchedPlaceholders ==
    NodeElement(PTAG, <<[key |-> ID, val |-> StrVal(_placeholder(0))]>>,
                <<Text(_placeholder(1), FALSE)>>)

\* the tree of the watched template with v and w in the places of the
\* placeholders
WatchedTree(v, w) ==
    NodeElement(PTAG, <<[key |-> ID, val |-> StrVal(v)]>>, <<Text(w, FALSE)>>)

\* the values a call of the watched template came with
ValuesOf(parts) == [v |-> parts[1].attrs[1].v.s, w |-> parts[2].v.s]

\* C22: calls whose templates have equal literal segments and different
\* values use the same cached placeholder tree; resolving leaves that tree as
\* it was built; each resolved tree holds the values of its own call only
C22_SharedTreeOwnValues ==
    /\ \A i \in 1..Len(cache) :
          cache[i].key = WatchedKey => cache[i].p_node = WatchedPlaceholders
    /\ pc \in {"parsed", "resolved", "rendered"} =>
          /\ p_node = _instrument_and_parse(tmpl)
          /\ CacheIndex(cache, TemplateOf(tmpl).strings) = Len(cache)
          /\ cache[Len(cache)].p_node = p_node
    /\ (pc \in {"parsed", "resolved", "rendered"} /\ tmpl \in WatchedCalls) =>
          p_node = WatchedPlaceholders
    /\ (pc \in {"resolved", "rendered"} /\ tmpl \in WatchedCalls) =>
          node = WatchedTree(ValuesOf(tmpl).v, ValuesOf(tmpl).w)
    /\ pc \in {"resolved", "rendered"} => node = processor_html(tmpl)

\* the watched template was built once, for a call with other values, whose
\* rendering the caller holds; other templates were compiled; this call is
\* resolved from the tree in the cache
C22_Witness ==
    /\ pc = "resolved"
    /\ tmpl = Watched(<<"c">>, <<"b">>)
    /\ out = NodeStr(WatchedTree(<<"b">>, <<"c">>))
    /\ CopiesIn(WatchedKey, builds) = 1
    /\ Seen >= 1
    /\ node = WatchedTree(<<"c">>, <<"b">>)

-----------------------------------------------------------------------------
(* SpecGeneral: one value interpolated as the value of an attribute whose  *)
(* key has no handler of its own, resolved by _substitute_attr of          *)
(* processor.py and by _process_attr_key of html.py                        *)

\* the largest number interpolated
MaxNumber == 3

TITLE == <<"t", "i", "t", "l", "e">>

PlainKeys == {ID, KEYK, TITLE}

GeneralValues == ReservedValues \cup {VInt(n) : n \in 0..MaxNumber}

GeneralInit ==
    /\ IdleOld
    /\ IdleAttr
    /\ IdleProc
    /\ fn_pc = "called"
    /\ fn_args \in [key : PlainKeys, value : GeneralValues]
    /\ fn_result = VNone

\* _substitute_attr(key, value) and _process_attr_key(key, value)
GeneralCall ==
    /\ fn_pc = "called"
    /\ fn_result' = [new |-> _substitute_attr(fn_args.key, fn_args.value),
                     old |-> _process_attr_key(fn_args.key, fn_args.value)]
    /\ fn_pc' = "returned"
    /\ UNCHANGED <<fn_args, varsOld, varsAttr, varsProc>>

SpecGeneral == GeneralInit /\ [][GeneralCall]_vars

\* a value that is neither a string, a boolean nor None
OtherType(v) == v.kind \notin {"str", "bool", "none"}

\* the attribute key with the stringified value, and nothing else
Stringified(key, v) == <<[key |-> key, val |-> StrVal(PyStr(v))]>>

\* C23: a value interpolation on a key without a handler whose value is
\* neither a string, a boolean nor None yields the attribute of that key
\* with the stringified value: it does not fail and yields no other
\* attribute, under processor.py and under html.py.
C23_OtherTypeStringified ==
    (fn_pc = "returned" /\ OtherType(fn_args.value)) =>
        /\ ~IsError(fn_result.new)
        /\ fn_result.new.d = Stringified(fn_args.key, fn_args.value)
        /\ ~IsError(fn_result.old)
        /\ fn_result.old.d = Stringified(fn_args.key, fn_args.value)

\* what html.py alone does with such a value
C23_OldStringifies ==
    (fn_pc = "returned" /\ OtherType(fn_args.value)) =>
        /\ ~IsError(fn_result.old)
        /\ fn_result.old.d = Stringified(fn_args.key, fn_args.value)

-----------------------------------------------------------------------------
(* SpecPlaced: one element with interpolations in every place a template   *)
(* can have them, through html() of html.py and of processor.py            *)

\* the most attributes, and the most children, written in the element
MaxPlaced == 2

\* an attribute with a whole and with a partial interpolated value, an
\* interpolation in the place of an attribute name, a literal attribute
PlacedAttrs ==
    {LitAttr(ID, StrVal(<<"x">>)),
     ValueAttr(KEYK, VStr(<<"y">>)),
     PartialAttr(KEYK, <<"x", "-">>, VStr(<<"y">>), <<>>),
     PartialAttr(KEYK, <<>>, VStr(<<"y">>), <<"-", "x">>),
     SpreadAttr(VDict(<<[key |-> TITLE, val |-> VStr(<<"w">>)]>>)),
     SpreadAttr(VStr(TITLE))}

\* literal text and an interpolation as child content
PlacedKids == {PData(<<"a">>), PSlot(VStr(<<"b">>))}

\* a literal tag name, a string and a callable in the place of the tag name
PlacedTags == {LitTag(DIV), SlotTag(VStr(DIV)), SlotTag(Elt)}

PlacedTemplates ==
    {<<PStart(tag, attrs)>> \o kids \o <<PEnd(tag)>> :
        tag \in PlacedTags,
        attrs \in UNION {[1..n -> PlacedAttrs] : n \in 0..MaxPlaced},
        kids \in UNION {[1..n -> PlacedKids] : n \in 0..MaxPlaced}}

PlacedInit ==
    /\ IdleOld
    /\ IdleFn
    /\ a_pc = "written"
    /\ a_parts \in PlacedTemplates
    /\ a_old = VNone
    /\ a_new = VNone
    /\ a_out = <<>>
    /\ a_old_out = <<>>
    /\ a_calls = <<>>
    /\ salt \in Salts
    /\ tmpl = <<>>
    /\ pc = "idle"
    /\ chunks = <<>>
    /\ p_node = VNone
    /\ node = VNone
    /\ out = <<>>
    /\ cache = <<>>
    /\ builds = EmptyBag

\* html.py: html(template)
PlacedOld ==
    /\ a_pc = "written"
    /\ \E ran \in {HtmlRun(a_parts)} : a_old' = ran.val /\ a_calls' = ran.calls
    /\ a_pc' = "old"
    /\ UNCHANGED <<a_parts, a_new, a_out, a_old_out, varsOld, varsProc, varsFn>>

\* processor.py: html(template)
PlacedNew ==
    /\ a_pc = "old"
    /\ a_new' = processor_html(a_parts)
    /\ a_pc' = "resolved"
    /\ UNCHANGED <<a_parts, a_old, a_out, a_old_out, a_calls, varsOld, varsProc, varsFn>>

PlacedNext == PlacedOld \/ PlacedNew

SpecPlaced == PlacedInit /\ [][PlacedNext]_vars

\* the strings of a tree: tag names, attribute names, attribute values, text
RECURSIVE StringsOf(_)
StringsOf(n) ==
    CASE n.kind = "str" -> {n.s}
      [] n.kind = "Text" -> {n.text}
      [] n.kind = "Fragment" -> UNION {StringsOf(n.children[i]) : i \in 1..Len(n.children)}
      [] n.kind = "Element" ->
            {n.tag}
              \cup {n.attrs[i].key : i \in 1..Len(n.attrs)}
              \cup {n.attrs[i].val.s : i \in {j \in 1..Len(n.attrs) : ~n.attrs[j].val.none}}
              \cup UNION {StringsOf(n.children[i]) : i \in 1..Len(n.children)}
      [] OTHER -> {}

\* what the keys html() of html.py feeds begin with
BookkeepPrefix == <<"t", "s", "-", "b", "k", "-">>

\* C24: a tree html() returns holds no placeholder token, in no tag name,
\* attribute name, attribute value or text, wherever the template has its
\* interpolations: as child content, as a whole or a part of an attribute
\* value, in the place of an attribute name or of the tag name.
C24_NoPlaceholderRemains ==
    /\ (a_pc \in {"old", "resolved"} /\ ~IsError(a_old)) =>
          \A s \in StringsOf(a_old) : ~Contains(s, BookkeepPrefix)
    /\ (a_pc = "resolved" /\ ~IsError(a_new)) =>
          \A s \in StringsOf(a_new) : ~Contains(s, _PLACEHOLDER_PREFIX)

\* the same for processor.py alone
C24_NewOnly ==
    (a_pc = "resolved" /\ ~IsError(a_new)) =>
        \A s \in StringsOf(a_new) : ~Contains(s, _PLACEHOLDER_PREFIX)

\* the same for the templates without a partial attribute value
C24_WholePlacements ==
    (\A i \in 1..Len(a_parts[1].attrs) : a_parts[1].attrs[i].ak # "partial")
        => C24_NoPlaceholderRemains

-----------------------------------------------------------------------------
(* The end tag of a void element at the root (Spec) *)

\* an end tag of a void element is fed while the stack holds the root alone
VoidEndAtRoot ==
    /\ phase = "feeding"
    /\ Len(stack) = 1
    /\ Len(fed') = Len(fed) + 1
    /\ Last(fed').p = "end"
    /\ Last(fed').tag.s \in VOID_ELEMENTS

\* the step discards the end tag when the last child of the root is an
\* element of that tag, and fails with the unexpected-closing-tag error
\* otherwise
DiscardedOrUnexpected ==
    LET children == stack[1].children IN
    IF /\ children # <<>>
       /\ Last(children).kind = "tuple"
       /\ Last(children).tag = Last(fed').tag.s
    THEN /\ err' = "none"
         /\ phase' = "feeding"
         /\ stack' = stack
    ELSE /\ err' = "UnexpectedClosingTag"
         /\ phase' = "done"
         /\ result' = Raise("UnexpectedClosingTag")

\* C25: an end tag of a void element that arrives while the stack holds the
\* root alone is discarded only if the last child of the root is an element
\* of that tag; otherwise (the last child is text or another element, or
\* the root has no children yet) the build fails with the
\* unexpected-closing-tag error.
C25_VoidEndAtRoot ==
    [][VoidEndAtRoot => DiscardedOrUnexpected]_vars

\* the same for a root that has a child
C25_RootWithChildren ==
    [][(VoidEndAtRoot /\ stack[1].children # <<>>) => DiscardedOrUnexpected]_vars

-----------------------------------------------------------------------------
(* SpecSingle: one value, through _clsx_single and through clsx            *)

\* the class names the mappings have as keys, and the flags as values
ClassKeys == {NAME_A, NAME_B, BLANK, S0}
ClassFlags == {VBool(TRUE), VBool(FALSE)}

\* the mappings of up to MaxItems entries with distinct keys
ClassDicts ==
    UNION {{VDict([i \in 1..n |-> [key |-> ks[i], val |-> fs[i]]]) :
              ks \in {k \in [1..n -> ClassKeys] : \A i, j \in 1..n : k[i] = k[j] => i = j},
              fs \in [1..n -> ClassFlags]} : n \in 0..MaxItems}

SingleInit ==
    /\ IdleOld
    /\ IdleAttr
    /\ IdleProc
    /\ fn_pc = "called"
    /\ fn_args \in ClsxValues \cup ClassDicts
    /\ fn_result = VNone

\* _clsx_single(arg) and clsx(arg)
SingleCall ==
    /\ fn_pc = "called"
    /\ fn_result' = [single |-> _clsx_single(fn_args), clsx |-> clsx(<<fn_args>>)]
    /\ fn_pc' = "returned"
    /\ UNCHANGED <<fn_args, varsOld, varsAttr, varsProc>>

SpecSingle == SingleInit /\ [][SingleCall]_vars

\* C26: for every value _clsx_single returns the string clsx returns for
\* that value as its one argument, and raises exactly when clsx raises.
C26_SingleIsClsx ==
    fn_pc = "returned" => fn_result.single = fn_result.clsx

\* the same for the values that are no mappings
C26_NotMappings ==
    (fn_pc = "returned" /\ fn_args.kind # "dict") => fn_result.single = fn_result.clsx

-----------------------------------------------------------------------------
(* SpecResults: one element whose tag name is an interpolation, written    *)
(* alone and between text inside <tr>, through html() of html.py; the      *)
(* callables differ in what they return                                    *)

ITAG == <<"i">>

\* def Fixed(*children, **attrs): return Element("i")
Fixed == VCallable("Fixed", Element(ITAG, <<>>, <<>>))

\* def One(*children, **attrs): return t"<td>1</td>"
OneParts == <<PStart(LitTag(TD), <<>>), PData(<<"1">>), PEnd(LitTag(TD))>>
One == VCallable("One", VTemplate(OneParts))

\* def Number(*children, **attrs): return 7
Number == VCallable("Number", VInt(7))

\* def Nothing(*children, **attrs): return None
Nothing == VCallable("Nothing", VNone)

\* the callables, and the values that are neither a string nor a callable
ResultTags == {Comp, Elt, Fixed, One, Number, Nothing, VInt(7), VNone}

\* <{tag} attrs>kids</{tag}>, alone and as <tr>a<{tag} attrs>kids</{tag}>b</tr>
ResultTemplates ==
    LET comps == {PComp(tag, tag, attrs, kids) :
                     tag \in ResultTags, attrs \in TagAttrs, kids \in BaseKids}
    IN  {<<c>> : c \in comps}
        \union {<<PStart(LitTag(TR), <<>>), PData(<<"a">>), c, PData(<<"b">>),
                  PEnd(LitTag(TR))>> : c \in comps}

ResultsInit ==
    /\ IdleOld
    /\ IdleProc
    /\ IdleFn
    /\ a_pc = "written"
    /\ a_parts \in ResultTemplates
    /\ a_old = VNone
    /\ a_new = VNone
    /\ a_out = <<>>
    /\ a_old_out = <<>>
    /\ a_calls = <<>>

SpecResults == ResultsInit /\ [][TagsNext]_vars

\* the exceptions html.py raises as ValueError
ValueErrors == {"ValueError", "MismatchedClosingTag", "UnexpectedClosingTag", "UnclosedTags"}

\* the element with the interpolated tag name
TheComp == IF Len(a_parts) = 1 THEN a_parts[1] ELSE a_parts[3]

\* what the callable returns for the resolved children and attributes
TheResult ==
    Invoke(TheComp.open, Plain(TheComp).children, Plain(TheComp).attrs)

\* what stands in the place of the element: the returned string, the
\* returned element, the tree of the returned template
InPlace ==
    CASE TheResult.kind = "str" -> Str(TheResult.s)
      [] TheResult.kind = "template" -> Html(TheResult.parts)
      [] OTHER -> TheResult

\* the tree with that in the place of the element
TreeWithResult ==
    IF Len(a_parts) = 1 THEN InPlace
    ELSE Element(TR, <<>>, <<Str(<<"a">>), InPlace, Str(<<"b">>)>>)

\* C27: what a callable in the tag slot returns, a string, an element or a
\* template, stands in the place of the whole element, whose own attributes
\* and children are in the tree only as far as the returned value has
\* them; a tag-slot value that is neither a string nor a callable, and a
\* callable that returns anything else, fail with a ValueError.
C27_ResultReplacesElement ==
    a_pc = "old" =>
        IF /\ TheComp.open.kind = "callable"
           /\ TheResult.kind \in {"str", "Element", "template"}
        THEN a_old = TreeWithResult
        ELSE IsError(a_old) /\ a_old.exc \in ValueErrors

\* the same for the callables that do not return a string
C27_OtherResults ==
    (a_pc = "old" /\ ~(TheComp.open.kind = "callable" /\ TheResult.kind = "str"))
        => C27_ResultReplacesElement

====
